---- MODULE Spec2Model ----
(***************************************************************************)
(* NoteHub: notes edited in the browser and persisted as commits in a      *)
(* GitHub repository.  The model covers the content adapter                *)
(* (githubService.server.ts), the server actions on top of it              *)
(* (noteActions / repoActions) and the part of the note page that reports  *)
(* a save.  The repository host is modelled by the answers its REST        *)
(* endpoints give to the requests the code issues.                         *)
(***************************************************************************)
EXTENDS Integers, Sequences, FiniteSets, TLC

VARIABLES
    commits,        \* host: the default branch, oldest first; a commit's id is its index
    repoCount,      \* host: number of repositories named DRAFTER_REPO_NAME
    sess,           \* per session: the server action in flight and its position
    latestContent,  \* note page state (useState), per session
    toast,          \* note page: the last toast shown, per session
    profileRepoName,\* users.github_repo_name of the profile row
    ensure,         \* the ensureUserRepo call in progress and its position
    ensureLog,      \* the completed ensureUserRepo calls, oldest first
    hostTree,       \* host: the recursive listing of the branch, [tree, truncated]
    nested,         \* sidebar state (useState tree), per session
    notePage,       \* NotePage component: its useState values and the mounted editor
    inFlight        \* NotePage component: the server actions it awaits

vars ==
    <<commits, repoCount, sess, latestContent, toast, profileRepoName, ensure, ensureLog,
      hostTree, nested, notePage, inFlight>>

-----------------------------------------------------------------------------
(* Bounds *)

MaxCommits == 3          \* commits on the branch in Spec and SpecPage
MaxHistory == 31         \* commits on the branch in SpecHistory
MaxEnsureCalls == 3      \* ensureUserRepo calls in SpecProvision
MaxInFlight == 2         \* server actions a NotePage awaits at one time
MaxSaves == 2            \* saves of a NotePage in SpecNote and SpecNav

-----------------------------------------------------------------------------
(* Optional values: undefined / null is the empty set, a value v is {v} *)

None == {}
Some(v) == {v}
The(o) == CHOOSE v \in o : TRUE

-----------------------------------------------------------------------------
(* Content strings are JavaScript strings: sequences of UTF-16 code units. *)

HighSurrogate == 55357   \* 0xD83D
LowSurrogate == 56832    \* 0xDE00
Replacement == 65533     \* 0xFFFD

IsHigh(u) == u >= 55296 /\ u <= 56319
IsLow(u) == u >= 56320 /\ u <= 57343

EmptyText == <<>>
AstralText == <<HighSurrogate, LowSurrogate>>   \* one code point, U+1F600
LoneText == <<HighSurrogate>>                   \* an unpaired surrogate

Contents == {EmptyText, AstralText, LoneText}

RECURSIVE WellFormed(_)
WellFormed(s) ==
    IF s = <<>> THEN TRUE
    ELSE IF IsHigh(Head(s))
         THEN Len(s) >= 2 /\ IsLow(s[2]) /\ WellFormed(Tail(Tail(s)))
         ELSE ~IsLow(Head(s)) /\ WellFormed(Tail(s))

(* UTF-8 bytes of one code point *)
Utf8OfCodePoint(cp) ==
    IF cp < 128 THEN <<cp>>
    ELSE IF cp < 2048 THEN <<192 + (cp \div 64), 128 + (cp % 64)>>
    ELSE IF cp < 65536
         THEN <<224 + (cp \div 4096), 128 + ((cp \div 64) % 64), 128 + (cp % 64)>>
         ELSE <<240 + (cp \div 262144), 128 + ((cp \div 4096) % 64),
                128 + ((cp \div 64) % 64), 128 + (cp % 64)>>

(* Buffer.from(content, 'utf8'): a surrogate pair is one code point, an     *)
(* unpaired surrogate is written as U+FFFD.                                 *)
RECURSIVE Utf8Encode(_)
Utf8Encode(s) ==
    IF s = <<>> THEN <<>>
    ELSE IF IsHigh(Head(s)) /\ Len(s) >= 2 /\ IsLow(s[2])
         THEN Utf8OfCodePoint(65536 + (Head(s) - 55296) * 1024 + (s[2] - 56320))
                  \o Utf8Encode(Tail(Tail(s)))
         ELSE IF IsHigh(Head(s)) \/ IsLow(Head(s))
              THEN Utf8OfCodePoint(Replacement) \o Utf8Encode(Tail(s))
              ELSE Utf8OfCodePoint(Head(s)) \o Utf8Encode(Tail(s))

(* Base64 text is a sequence of sextets 0..63; Pad is '=', NewLine is '\n'. *)
Pad == 64
NewLine == 65

(* .toString('base64') *)
RECURSIVE Base64Encode(_)
Base64Encode(b) ==
    IF b = <<>> THEN <<>>
    ELSE IF Len(b) = 1
         THEN <<b[1] \div 4, (b[1] % 4) * 16, Pad, Pad>>
    ELSE IF Len(b) = 2
         THEN <<b[1] \div 4, (b[1] % 4) * 16 + (b[2] \div 16), (b[2] % 16) * 4, Pad>>
    ELSE <<b[1] \div 4, (b[1] % 4) * 16 + (b[2] \div 16),
           (b[2] % 16) * 4 + (b[3] \div 64), b[3] % 64>>
             \o Base64Encode(SubSeq(b, 4, Len(b)))

(* Buffer.from(text, 'base64'): white space is skipped, padding ends the data *)
RECURSIVE Sextets(_)
Sextets(t) ==
    IF t = <<>> THEN <<>>
    ELSE IF Head(t) = Pad THEN <<>>
    ELSE IF Head(t) = NewLine THEN Sextets(Tail(t))
    ELSE <<Head(t)>> \o Sextets(Tail(t))

RECURSIVE BytesOfSextets(_)
BytesOfSextets(x) ==
    IF Len(x) < 2 THEN <<>>
    ELSE IF Len(x) = 2 THEN <<x[1] * 4 + (x[2] \div 16)>>
    ELSE IF Len(x) = 3
         THEN <<x[1] * 4 + (x[2] \div 16), (x[2] % 16) * 16 + (x[3] \div 4)>>
    ELSE <<x[1] * 4 + (x[2] \div 16), (x[2] % 16) * 16 + (x[3] \div 4),
           (x[3] % 4) * 64 + x[4]>>
             \o BytesOfSextets(SubSeq(x, 5, Len(x)))

Base64Decode(t) == BytesOfSextets(Sextets(t))

IsCont(b, i) == Len(b) >= i /\ b[i] >= 128 /\ b[i] < 192

(* .toString('utf8'): code points above U+FFFF become a surrogate pair, a   *)
(* malformed byte becomes U+FFFD.                                           *)
RECURSIVE Utf8Decode(_)
Utf8Decode(b) ==
    IF b = <<>> THEN <<>>
    ELSE IF b[1] < 128 THEN <<b[1]>> \o Utf8Decode(Tail(b))
    ELSE IF b[1] >= 192 /\ b[1] < 224 /\ IsCont(b, 2)
         THEN <<(b[1] - 192) * 64 + (b[2] - 128)>> \o Utf8Decode(SubSeq(b, 3, Len(b)))
    ELSE IF b[1] >= 224 /\ b[1] < 240 /\ IsCont(b, 2) /\ IsCont(b, 3)
         THEN <<(b[1] - 224) * 4096 + (b[2] - 128) * 64 + (b[3] - 128)>>
                  \o Utf8Decode(SubSeq(b, 4, Len(b)))
    ELSE IF b[1] >= 240 /\ b[1] < 248 /\ IsCont(b, 2) /\ IsCont(b, 3) /\ IsCont(b, 4)
         THEN LET cp == (b[1] - 240) * 262144 + (b[2] - 128) * 4096
                          + (b[3] - 128) * 64 + (b[4] - 128)
              IN <<55296 + ((cp - 65536) \div 1024), 56320 + ((cp - 65536) % 1024)>>
                     \o Utf8Decode(SubSeq(b, 5, Len(b)))
    ELSE <<Replacement>> \o Utf8Decode(Tail(b))

(* a variant: the bytes are read as Latin-1, one code unit per byte *)
DecodeContentLatin1(t) == Base64Decode(t)

(* saveNote / createNote / createFolder: Buffer.from(content,'utf8').toString('base64') *)
EncodeContent(c) == Base64Encode(Utf8Encode(c))

(* getRepoFileContent / getFileContentAtCommit:                             *)
(* Buffer.from(data.content,'base64').toString('utf8')                      *)
DecodeContent(t) == Utf8Decode(Base64Decode(t))

-----------------------------------------------------------------------------
(* Paths are sequences of segments; the path string joins them with '/'.   *)

EmptyPath == <<>>
NotePath == <<"n.md">>
FolderPath == <<"d">>
GitkeepPath(folderPath) == Append(folderPath, ".gitkeep")

EndsWithMd(p) == p # <<>> /\ p[Len(p)] \in {"n.md"}

IsProperPrefix(p, q) == Len(p) < Len(q) /\ SubSeq(q, 1, Len(p)) = p

Sessions == {"tab1", "tab2"}

-----------------------------------------------------------------------------
(* The repository host.  A commit is [path, content, plain]: content is the *)
(* base64 text the host received; plain records the string the server       *)
(* action was called with (history only, the host never reads it).          *)

Max(S) == CHOOSE x \in S : \A y \in S : y <= x

(* the blob at path p as of commit k (k = 0: the branch before any note) *)
HostFileAt(log, p, k) ==
    LET idx == {i \in 1..k : log[i].path = p}
    IN IF idx = {} THEN None ELSE Some(log[Max(idx)].content)

HostIsDirAt(log, p, k) == \E i \in 1..k : IsProperPrefix(p, log[i].path)

(* blob ids are content hashes: equal content, equal id *)
BlobSha(content) == [blob |-> content]

(* the host sends base64 text with line breaks *)
HostTransfer(content) == IF content = <<>> THEN <<>> ELSE content \o <<NewLine>>

NetFailure == [status |-> 500, isArray |-> FALSE, type |-> "none", sha |-> None, content |-> None]

(* the UTF-16 code units of the names and separators the model uses *)
Units(name) ==
    CASE name = "a" -> <<97>>
      [] name = "d" -> <<100>>
      [] name = "sub" -> <<115, 117, 98>>
      [] name = "n.md" -> <<110, 46, 109, 100>>
      [] name = "x.md" -> <<120, 46, 109, 100>>
      [] name = "Z.md" -> <<90, 46, 109, 100>>
      [] name = ".hidden" -> <<46, 104, 105, 100, 100, 101, 110>>
      [] name = ".gitkeep" -> <<46, 103, 105, 116, 107, 101, 101, 112>>
      [] name = "notes.gitkeep" -> <<110, 111, 116, 101, 115, 46, 103, 105, 116, 107, 101, 101, 112>>
      [] name = "p.gitkeep" -> <<112, 46, 103, 105, 116, 107, 101, 101, 112>>
      [] name = "q.gitkeep" -> <<113, 46, 103, 105, 116, 107, 101, 101, 112>>
      [] name = "__proto__" -> <<95, 95, 112, 114, 111, 116, 111, 95, 95>>
      [] name = "." -> <<46>>
      [] name = "/" -> <<47>>

RECURSIVE PathString(_)
(* the path string of a path: its segments joined with '/' *)
PathString(p) ==
    IF Len(p) = 0 THEN <<>>
    ELSE IF Len(p) = 1 THEN Units(p[1])
    ELSE Units(p[1]) \o Units("/") \o PathString(Tail(p))

(* String.prototype.startsWith, String.prototype.endsWith on code units *)
StartsWith(str, prefix) ==
    Len(prefix) <= Len(str) /\ SubSeq(str, 1, Len(prefix)) = prefix
EndsWith(str, suffix) ==
    Len(suffix) <= Len(str) /\ SubSeq(str, Len(str) - Len(suffix) + 1, Len(str)) = suffix

(* the files a branch may hold: [path, type]; type "commit" is a submodule *)
Blob(p) == [path |-> p, type |-> "blob"]
TreeFiles ==
    << Blob(<<".hidden", "x.md">>),
       [path |-> <<"sub">>, type |-> "commit"],
       Blob(<<"Z.md">>),
       Blob(<<"__proto__">>),
       Blob(<<"a", ".hidden", "x.md">>),
       Blob(<<"a", "x.md">>),
       Blob(GitkeepPath(FolderPath)),
       Blob(NotePath),
       Blob(<<"notes.gitkeep">>),
       Blob(<<"p.gitkeep", "n.md">>),
       Blob(<<"q.gitkeep", "n.md">>) >>

MaxFiles == 3

(* the directories of a path: its proper prefixes *)
DirsOf(p) == { SubSeq(p, 1, k) : k \in 1..(Len(p) - 1) }

(* git's order of the entries of a recursive listing: by path, code unit by *)
(* code unit                                                                *)
RECURSIVE UnitsLess(_, _)
UnitsLess(x, y) ==
    IF Len(y) = 0 THEN FALSE
    ELSE IF Len(x) = 0 THEN TRUE
    ELSE IF Head(x) # Head(y) THEN Head(x) < Head(y)
    ELSE UnitsLess(Tail(x), Tail(y))

EntryLess(e, f) == UnitsLess(PathString(e.path), PathString(f.path))

RECURSIVE Ordered(_)
(* the entries of a set as a sequence in git's order *)
Ordered(S) ==
    IF S = {} THEN <<>>
    ELSE LET m == CHOOSE x \in S : \A y \in S \ {x} : EntryLess(x, y)
         IN <<m>> \o Ordered(S \ {m})

(* the recursive listing of a branch that holds the files of `files` *)
ListingOf(files) ==
    Ordered(files \cup { [path |-> q, type |-> "tree"] :
                           q \in UNION { DirsOf(f.path) : f \in files } })

(* the listing of the branch after a commit that writes the file at p: the  *)
(* file and its directories are entries of it                               *)
PushedTree(h, p) ==
    [h EXCEPT !.branch = TRUE,
              !.tree = Ordered({ h.tree[i] : i \in 1..Len(h.tree) }
                               \cup { Blob(p) }
                               \cup { [path |-> q, type |-> "tree"] : q \in DirsOf(p) })]

(* GET /repos/{owner}/{repo}/contents/{path}[?ref=k] *)
HostGetContent(log, p, k) ==
    LET f == HostFileAt(log, p, k)
    IN IF f # None
       THEN [status |-> 200, isArray |-> FALSE, type |-> "file",
             sha |-> Some(BlobSha(The(f))), content |-> Some(HostTransfer(The(f)))]
       ELSE IF HostIsDirAt(log, p, k)
            THEN [status |-> 200, isArray |-> TRUE, type |-> "dir", sha |-> None, content |-> None]
            ELSE [status |-> 404, isArray |-> FALSE, type |-> "none", sha |-> None,
                  content |-> None]

(* PUT /repos/{owner}/{repo}/contents/{path}: the status the host answers *)
HostPutStatus(log, p, shaArg) ==
    LET f == HostFileAt(log, p, Len(log))
    IN IF f # None
       THEN IF shaArg = None THEN 422
            ELSE IF shaArg = Some(BlobSha(The(f))) THEN 200 ELSE 409
       ELSE IF HostIsDirAt(log, p, Len(log)) THEN 422
            ELSE IF shaArg = None THEN 201 ELSE 409

HostMessage(status) ==
    CASE status = 409 -> "does not match"
      [] status = 422 -> "sha wasn't supplied"
      [] status = 404 -> "Not Found"
      [] OTHER -> "request failed"

(* GET /repos/{owner}/{repo}/commits?path=p: newest first, one page *)
PerPage == 30

RECURSIVE CommitsForPath(_, _, _)
CommitsForPath(log, p, k) ==
    IF k = 0 THEN <<>>
    ELSE IF log[k].path = p THEN <<k>> \o CommitsForPath(log, p, k - 1)
    ELSE CommitsForPath(log, p, k - 1)

HostListCommits(log, p) ==
    LET all == CommitsForPath(log, p, Len(log))
    IN SubSeq(all, 1, IF Len(all) < PerPage THEN Len(all) ELSE PerPage)

-----------------------------------------------------------------------------
(* githubService.server.ts: each function applied to the host's answer.    *)
(* A result is [threw, value, error].                                       *)

Returned(v) == [threw |-> FALSE, value |-> v, error |-> <<"", "">>]
Threw(prefix, msg) == [threw |-> TRUE, value |-> None, error |-> <<prefix, msg>>]

(* a variant: the lookup reports every path as absent *)
getFileShaNotFound(r) == Returned(None)

getFileSha(r) ==
    IF r.status = 200
    THEN IF ~r.isArray /\ r.type = "file" /\ r.sha # None
         THEN Returned(r.sha)
         ELSE Returned(None)
    ELSE IF r.status = 404 THEN Returned(None)
    ELSE Threw("", HostMessage(r.status))

(* a variant: every failure of the request is answered with null *)
getRepoFileContentSwallows(r) ==
    IF r.status = 200 /\ ~r.isArray /\ r.type = "file" /\ r.content # None
    THEN Returned(Some(DecodeContent(The(r.content))))
    ELSE Returned(None)

getRepoFileContent(r) ==
    IF r.status = 200
    THEN IF ~r.isArray /\ r.type = "file" /\ r.content # None
         THEN Returned(Some(DecodeContent(The(r.content))))
         ELSE Returned(None)
    ELSE IF r.status = 404 THEN Returned(None)
    ELSE Threw("Could not get file content from GitHub: ", HostMessage(r.status))

(* a variant: a directory listing is treated as a failure *)
getFileContentAtCommitRejectsDir(r) ==
    IF r.status = 200
    THEN IF ~r.isArray /\ r.type = "file" /\ r.content # None
         THEN Returned(Some(DecodeContent(The(r.content))))
         ELSE Threw("Could not get file content at commit from GitHub: ", "not a file")
    ELSE IF r.status = 404 THEN Returned(None)
    ELSE Threw("Could not get file content at commit from GitHub: ", HostMessage(r.status))

getFileContentAtCommit(r) ==
    IF r.status = 200
    THEN IF ~r.isArray /\ r.type = "file" /\ r.content # None
         THEN Returned(Some(DecodeContent(The(r.content))))
         ELSE Returned(None)
    ELSE IF r.status = 404 THEN Returned(None)
    ELSE Threw("Could not get file content at commit from GitHub: ", HostMessage(r.status))

(* one entry per commit of the page the host sent; a commit's sha is its index *)
getCommitHistoryForFile(status, page) ==
    IF status = 200
    THEN Returned([i \in 1..Len(page) |-> [sha |-> page[i]]])
    ELSE Threw("Could not fetch commit history from GitHub: ", HostMessage(status))

(* a variant: the blob id is read again when the write is sent *)
commitFileShaRefetched(p, currentSha) ==
    LET f == HostFileAt(commits, p, Len(commits))
    IN IF f = None THEN None ELSE Some(BlobSha(The(f)))

(* a variant: the blob id is never supplied *)
commitFileShaOmitted(p, currentSha) == None

(* the sha parameter of the createOrUpdateFileContents request for path p *)
commitFileSha(p, currentSha) == currentSha

(* a variant: the ref parameter is left out, the host reads the branch tip *)
getFileContentAtCommitRefOmitted(commitSha, tip) == tip

(* the ref parameter of the getContent request of getFileContentAtCommit *)
getFileContentAtCommitRef(commitSha, tip) == commitSha

(* a variant: the catch block of commitFile does not rethrow *)
commitFileSwallowsError(status) == Returned(None)

(* commitFile after the write request was answered with `status` *)
commitFile(status) ==
    IF status \in {200, 201}
    THEN Returned(None)
    ELSE Threw("Could not commit file to GitHub: ", HostMessage(status))

-----------------------------------------------------------------------------
(* Server actions (noteActions).  A call is [op, path, content, ref]; the   *)
(* result the caller receives is [success, error, content, history].        *)

NoCall == [op |-> "none", path |-> EmptyPath, content |-> EmptyText, ref |-> 0]
NoRet == [success |-> FALSE, error |-> <<"", "">>, content |-> None, history |-> <<>>]

Success == [success |-> TRUE, error |-> <<"", "">>, content |-> None, history |-> <<>>]
Failure(err) == [success |-> FALSE, error |-> err, content |-> None, history |-> <<>>]

(* what the session and the profile store answer to one server action *)
Envs == [user : BOOLEAN, profile : BOOLEAN, token : BOOLEAN, decrypt : BOOLEAN,
         githubUser : BOOLEAN]

OkEnv == [user |-> TRUE, profile |-> TRUE, token |-> TRUE, decrypt |-> TRUE,
          githubUser |-> TRUE]

(* a session: the call in progress, the answers its checks saw (env), the   *)
(* requests it has sent to the host (reqs) and its result (ret)             *)
Idle == [pc |-> "idle", call |-> NoCall, env |-> OkEnv, lookupAt |-> 0, sha |-> None,
         ret |-> NoRet, outcome |-> "none", reqs |-> <<>>]

HistoryOps == {"getNoteHistory", "getNoteVersion"}

RepoNameError(op) ==
    IF op \in HistoryOps
    THEN "GitHub repository name not set."
    ELSE "GitHub repository name not set for user."

(* the answers a note action gets to see: it returns at the first check    *)
(* that fails and asks nothing further                                      *)
Observed(pathOk, env, repoName) ==
    IF ~pathOk THEN OkEnv
    ELSE IF ~env.user THEN [OkEnv EXCEPT !.user = FALSE]
    ELSE IF ~env.profile THEN [OkEnv EXCEPT !.profile = FALSE]
    ELSE IF repoName = None THEN OkEnv
    ELSE IF ~env.token THEN [OkEnv EXCEPT !.token = FALSE]
    ELSE IF ~env.decrypt THEN [OkEnv EXCEPT !.decrypt = FALSE]
    ELSE IF ~env.githubUser THEN [OkEnv EXCEPT !.githubUser = FALSE]
    ELSE OkEnv

(* a variant: the result of decrypt is not checked *)
PreconditionNoDecryptCheck(op, pathOk, pathError, env, repoName) ==
    IF ~pathOk THEN pathError
    ELSE IF ~env.user THEN "User not authenticated."
    ELSE IF ~env.profile THEN "Could not fetch user profile."
    ELSE IF repoName = None THEN RepoNameError(op)
    ELSE IF ~env.token THEN "Encrypted GitHub token not found."
    ELSE IF ~env.githubUser THEN "Could not fetch GitHub user information."
    ELSE "ok"

(* the checks every note action makes before it reaches the host *)
Precondition(op, pathOk, pathError, env, repoName) ==
    IF ~pathOk THEN pathError
    ELSE IF ~env.user THEN "User not authenticated."
    ELSE IF ~env.profile THEN "Could not fetch user profile."
    ELSE IF repoName = None THEN RepoNameError(op)
    ELSE IF ~env.token THEN "Encrypted GitHub token not found."
    ELSE IF ~env.decrypt THEN "Failed to decrypt GitHub token."
    ELSE IF ~env.githubUser THEN "Could not fetch GitHub user information."
    ELSE "ok"

PathOk(op, p) ==
    CASE op = "createNote" -> p # EmptyPath /\ EndsWithMd(p)
      [] op = "createFolder" -> p # EmptyPath
      [] OTHER -> p # EmptyPath

PathError(op) ==
    CASE op = "createNote" -> "Invalid file path. Must end with .md"
      [] op = "createFolder" -> "Invalid folder path. Use relative paths, no trailing slash."
      [] op = "getNoteVersion" -> "Note path and commit SHA are required."
      [] OTHER -> "Note path is required."

(* a variant: createFolder commits at the folder path itself *)
CommitPathNoPlaceholder(call) == call.path

(* the path and the content a write action hands to commitFile *)
CommitPath(call) == IF call.op = "createFolder" THEN GitkeepPath(call.path) ELSE call.path
CommitContent(call) == IF call.op = "createFolder" THEN EmptyText ELSE call.content

WriteOps == {"saveNote", "createNote", "createFolder"}

SaveCall(p, c) == [op |-> "saveNote", path |-> p, content |-> c, ref |-> 0]
CreateNoteCall(p) == [op |-> "createNote", path |-> p, content |-> EmptyText, ref |-> 0]
CreateFolderCall(p) == [op |-> "createFolder", path |-> p, content |-> EmptyText, ref |-> 0]

(* the write calls and the answers of the session store drawn in Spec *)
MainCalls ==
    {SaveCall(NotePath, c) : c \in Contents}
    \cup {SaveCall(EmptyPath, EmptyText), CreateFolderCall(FolderPath)}

MainEnvs == {OkEnv, [OkEnv EXCEPT !.user = FALSE]}

InFlightWrites == Cardinality({s \in Sessions : sess[s].pc \in {"lookup", "write"}})

(* the branch may still grow: the write calls begun so far leave room *)
Room(bound) == Len(commits) + InFlightWrites < bound

(* saveNote / createNote / createFolder up to the call of commitFile; the    *)
(* call is begun only while the branch holds fewer than `bound` commits     *)
BeginWrite(s, call, env, bound) ==
    /\ sess[s].pc = "idle"
    /\ Room(bound)
    /\ LET pre == Precondition(call.op, PathOk(call.op, call.path), PathError(call.op), env,
                               profileRepoName)
           seen == Observed(PathOk(call.op, call.path), env, profileRepoName)
       IN sess' = [sess EXCEPT ![s] =
            IF pre = "ok"
            THEN [Idle EXCEPT !.pc = "lookup", !.call = call, !.env = seen]
            ELSE [Idle EXCEPT !.pc = "done", !.call = call, !.env = seen,
                              !.ret = Failure(<<"", pre>>)]]
    /\ UNCHANGED <<notePage, inFlight, commits, repoCount, latestContent, toast, profileRepoName, ensure, ensureLog,
                   hostTree, nested>>

(* commitFile, first request: getFileSha *)
Lookup(s, net) ==
    /\ sess[s].pc = "lookup"
    /\ LET p == CommitPath(sess[s].call)
           r == IF net = "ok" THEN HostGetContent(commits, p, Len(commits)) ELSE NetFailure
           g == getFileSha(r)
           reqs == Append(sess[s].reqs, [kind |-> "getContent", path |-> p, sha |-> None])
       IN sess' = [sess EXCEPT ![s] =
            IF g.threw
            THEN [@ EXCEPT !.pc = "done", !.ret = Failure(g.error), !.reqs = reqs,
                           !.lookupAt = Len(commits)]
            ELSE [@ EXCEPT !.pc = "write", !.sha = g.value, !.reqs = reqs,
                           !.lookupAt = Len(commits)]]
    /\ UNCHANGED <<notePage, inFlight, commits, repoCount, latestContent, toast, profileRepoName, ensure, ensureLog,
                   hostTree, nested>>

WriteOutcome(net, status) ==
    IF net = "fail" THEN "failed"
    ELSE IF status \in {200, 201} THEN (IF net = "ok" THEN "accepted" ELSE "lost")
    ELSE IF net = "lost" THEN "failed"
    ELSE IF status = 409 THEN "conflict"
    ELSE "rejected"

(* The catch blocks of saveNote, createNote and createFolder return the     *)
(* message of the error they caught (createNote replaces a message that     *)
(* contains 'exists'; none of HostMessage's does).                          *)
(* commitFile, second request: createOrUpdateFileContents.  net = "fail":   *)
(* the request does not reach the host; net = "lost": the host handles it   *)
(* and the answer does not come back.                                       *)
Write(s, net) ==
    /\ sess[s].pc = "write"
    /\ LET call == sess[s].call
           p == CommitPath(call)
           shaArg == commitFileSha(p, sess[s].sha)
           status == HostPutStatus(commits, p, shaArg)
           applied == net \in {"ok", "lost"} /\ status \in {200, 201}
           cf == commitFile(IF net = "ok" THEN status ELSE 500)
           log == IF applied
                  THEN Append(commits, [path |-> p,
                                        content |-> EncodeContent(CommitContent(call)),
                                        plain |-> CommitContent(call)])
                  ELSE commits
       IN /\ commits' = log
          /\ hostTree' = IF applied THEN PushedTree(hostTree, p) ELSE hostTree
          /\ sess' = [sess EXCEPT ![s] =
                [@ EXCEPT !.pc = "done",
                          !.ret = IF cf.threw THEN Failure(cf.error) ELSE Success,
                          !.outcome = WriteOutcome(net, status),
                          !.reqs = Append(@, [kind |-> "put", path |-> p, sha |-> shaArg])]]
    /\ UNCHANGED <<notePage, inFlight, repoCount, latestContent, toast, profileRepoName, ensure, ensureLog,
                   nested>>

(* loadNote: one request, getRepoFileContent *)
LoadNote(s, p, env, net) ==
    /\ sess[s].pc = "idle"
    /\ LET call == [op |-> "loadNote", path |-> p, content |-> EmptyText, ref |-> 0]
           pre == Precondition(call.op, PathOk(call.op, p), PathError(call.op), env,
                               profileRepoName)
           r == IF net = "ok" THEN HostGetContent(commits, p, Len(commits)) ELSE NetFailure
           g == getRepoFileContent(r)
       IN sess' = [sess EXCEPT ![s] =
            [Idle EXCEPT !.pc = "done", !.call = call,
                         !.env = Observed(PathOk(call.op, p), env, profileRepoName),
                         !.reqs = IF pre = "ok"
                                  THEN <<[kind |-> "getContent", path |-> p, sha |-> None]>>
                                  ELSE <<>>,
                         !.ret = IF pre # "ok" THEN Failure(<<"", pre>>)
                                 ELSE IF g.threw THEN Failure(g.error)
                                 ELSE [Success EXCEPT !.content = g.value]]]
    /\ UNCHANGED <<notePage, inFlight, commits, repoCount, latestContent, toast, profileRepoName, ensure, ensureLog,
                   hostTree, nested>>

(* getNoteVersion: one request, getFileContentAtCommit; k is the id of a     *)
(* commit of the branch                                                     *)
GetNoteVersion(s, p, k, env, net) ==
    /\ sess[s].pc = "idle"
    /\ k \in 1..Len(commits)
    /\ LET call == [op |-> "getNoteVersion", path |-> p, content |-> EmptyText, ref |-> k]
           pre == Precondition(call.op, PathOk(call.op, p), PathError(call.op), env,
                               profileRepoName)
           r == IF net = "ok"
                THEN HostGetContent(commits, p, getFileContentAtCommitRef(k, Len(commits)))
                ELSE NetFailure
           g == getFileContentAtCommit(r)
       IN sess' = [sess EXCEPT ![s] =
            [Idle EXCEPT !.pc = "done", !.call = call,
                         !.env = Observed(PathOk(call.op, p), env, profileRepoName),
                         !.reqs = IF pre = "ok"
                                  THEN <<[kind |-> "getContent", path |-> p, sha |-> None]>>
                                  ELSE <<>>,
                         !.ret = IF pre # "ok" THEN Failure(<<"", pre>>)
                                 ELSE IF g.threw THEN Failure(g.error)
                                 ELSE [Success EXCEPT !.content = g.value]]]
    /\ UNCHANGED <<notePage, inFlight, commits, repoCount, latestContent, toast, profileRepoName, ensure, ensureLog,
                   hostTree, nested>>

(* getNoteHistory: one request, getCommitHistoryForFile *)
GetNoteHistory(s, p, env, net) ==
    /\ sess[s].pc = "idle"
    /\ LET call == [op |-> "getNoteHistory", path |-> p, content |-> EmptyText, ref |-> 0]
           pre == Precondition(call.op, PathOk(call.op, p), PathError(call.op), env,
                               profileRepoName)
           g == IF net = "ok"
                THEN getCommitHistoryForFile(200, HostListCommits(commits, p))
                ELSE getCommitHistoryForFile(500, <<>>)
       IN sess' = [sess EXCEPT ![s] =
            [Idle EXCEPT !.pc = "done", !.call = call,
                         !.env = Observed(PathOk(call.op, p), env, profileRepoName),
                         !.reqs = IF pre = "ok"
                                  THEN <<[kind |-> "listCommits", path |-> p, sha |-> None]>>
                                  ELSE <<>>,
                         !.ret = IF pre # "ok" THEN Failure(<<"", pre>>)
                                 ELSE IF g.threw THEN Failure(g.error)
                                 ELSE [Success EXCEPT !.history = g.value]]]
    /\ UNCHANGED <<notePage, inFlight, commits, repoCount, latestContent, toast, profileRepoName, ensure,
                   ensureLog,
                   hostTree, nested>>

(* session s holds the result of a finished call of op *)
Done(s, op) == sess[s].pc = "done" /\ sess[s].call.op = op

(* the caller has taken the result *)
Return(s) ==
    /\ sess[s].pc = "done"
    /\ sess' = [sess EXCEPT ![s] = Idle]
    /\ UNCHANGED <<notePage, inFlight, commits, repoCount, latestContent, toast, profileRepoName, ensure, ensureLog,
                   hostTree, nested>>

DRAFTER_REPO_NAME == "drafter-repo"

(* ensureUserRepo: [pc, before, hadName, check, reqs].  before: the number  *)
(* of repositories when the call began; hadName: profile.github_repo_name   *)
(* was set in the row the call read; check: what checkAndCreateRepoIfNeeded *)
(* returned; reqs: the requests sent to the host; answers: the status each  *)
(* request was answered with.                                               *)
NoCheck == [reached |-> FALSE, repoExisted |-> FALSE, repoName |-> "", error |-> ""]
EnsureIdle == [pc |-> "idle", before |-> 0, hadName |-> FALSE, check |-> NoCheck,
               reqs |-> <<>>, answers |-> <<>>]

(* the callers of ensureUserRepo: the sign-in callback and getNoteTree; a   *)
(* call of one can be in progress while the other's is                      *)
Callers == {"callback", "getNoteTree"}

(* GET /repos/{owner}/{repo}/git/trees/{tree_sha}?recursive=true: the       *)
(* entries and the flag the host sends; each entry is [path, type]          *)
NoListing == [branch |-> FALSE, tree |-> <<>>, truncated |-> FALSE]

(* NotePage: where displayedContent came from (the load of a path, the     *)
(* latest content restored by handleSelectVersion, or a version of a path)  *)
NoSource == [kind |-> "blank", path |-> EmptyPath, sha |-> 0]

(* the NoteEditor instance: its key (path, sha), the markdown it holds, and *)
(* the source of the initialContent it was mounted with                     *)
NoEditor == [mounted |-> FALSE, path |-> EmptyPath, sha |-> 0, text |-> EmptyText,
             from |-> NoSource]

(* the useState values of NotePage before its first effect; sha 0 is null *)
NoNotePage ==
    [path |-> EmptyPath, isCommitDialogOpen |-> FALSE, initialLoadComplete |-> FALSE,
     latestContent |-> EmptyText, displayedContent |-> EmptyText, displayedFrom |-> NoSource,
     history |-> None, selectedCommitSha |-> 0, isHistoryLoading |-> FALSE,
     isVersionLoading |-> FALSE, editor |-> NoEditor]

(* a provisioned account: the repository exists and the profile names it *)
Init ==
    /\ commits = <<>>
    /\ repoCount = 1
    /\ sess = [s \in Sessions |-> Idle]
    /\ latestContent = [s \in Sessions |-> EmptyText]
    /\ toast = [s \in Sessions |-> "none"]
    /\ profileRepoName = Some(DRAFTER_REPO_NAME)
    /\ ensure = [c \in Callers |-> EnsureIdle]
    /\ ensureLog = <<>>
    /\ hostTree = NoListing
    /\ nested = [s \in Sessions |-> <<>>]
    /\ notePage = NoNotePage
    /\ inFlight = {}

Next ==
    \E s \in Sessions :
        \/ \E call \in MainCalls, env \in MainEnvs : BeginWrite(s, call, env, MaxCommits)
        \/ \E net \in {"ok", "fail"} : Lookup(s, net)
        \/ \E net \in {"ok", "fail", "lost"} : Write(s, net)
        \/ \E env \in MainEnvs, net \in {"ok", "fail"} : LoadNote(s, NotePath, env, net)
        \/ \E k \in 1..MaxCommits, env \in MainEnvs, net \in {"ok", "fail"} :
               GetNoteVersion(s, NotePath, k, env, net)
        \/ Return(s)

Spec == Init /\ [][Next]_vars

-----------------------------------------------------------------------------
(* The note page (NotePage).  Pages holds the sessions that are a note page *)
(* open on NotePath; the other sessions call the server actions directly    *)
(* (the sidebar, another client).  toast[s] is the last toast of page s.    *)

Pages == {"tab1"}

ToastSaved == "Note saved successfully!"
ToastSaveFailed == "Failed to save"
ToastLoadFailed == "Failed to load note"
ToastMessageEmpty == "Commit message cannot be empty."

(* a variant: the page reports every save as successful *)
SaveToastAlways(result) == ToastSaved

(* handleConfirmSave: the toast shown for the result of saveNote *)
SaveToast(result) == IF result.success THEN ToastSaved ELSE ToastSaveFailed

(* what the editor of a page can hold when the commit dialog is confirmed:  *)
(* handlePromptSave opens the dialog only for a non-empty editor            *)
EditorContents == Contents \ {EmptyText}

(* the write calls of the sessions that are not a page, in SpecPage *)
OtherCalls ==
    {SaveCall(NotePath, c) : c \in {EmptyText, AstralText}}
    \cup {CreateNoteCall(NotePath), CreateNoteCall(FolderPath), CreateFolderCall(FolderPath)}

(* handleConfirmSave up to the call of saveNote(notePath, contentToSave, commitMessage) *)
handleConfirmSave(s, contentToSave, messageOk, env) ==
    /\ s \in Pages
    /\ IF messageOk
       THEN BeginWrite(s, SaveCall(NotePath, contentToSave), env, MaxCommits)
       ELSE /\ sess[s].pc = "idle"
            /\ toast[s] # ToastMessageEmpty
            /\ toast' = [toast EXCEPT ![s] = ToastMessageEmpty]
            /\ UNCHANGED <<notePage, inFlight, commits, repoCount, sess, latestContent, profileRepoName,
                           ensure, ensureLog,
                   hostTree, nested>>

(* handleConfirmSave after saveNote has returned *)
handleConfirmSaveReturn(s) ==
    /\ s \in Pages
    /\ Done(s, "saveNote")
    /\ toast' = [toast EXCEPT ![s] = SaveToast(sess[s].ret)]
    /\ latestContent' = [latestContent EXCEPT ![s] =
                            IF sess[s].ret.success THEN sess[s].call.content ELSE @]
    /\ sess' = [sess EXCEPT ![s] = Idle]
    /\ UNCHANGED <<notePage, inFlight, commits, repoCount, profileRepoName, ensure, ensureLog,
                   hostTree, nested>>

(* fetchNoteContent (the load effect) after loadNote has returned *)
fetchNoteContentReturn(s) ==
    /\ s \in Pages
    /\ Done(s, "loadNote")
    /\ IF sess[s].ret.success
       THEN /\ latestContent' = [latestContent EXCEPT ![s] =
                                   IF sess[s].ret.content = None
                                   THEN EmptyText ELSE The(sess[s].ret.content)]
            /\ UNCHANGED toast
       ELSE /\ toast' = [toast EXCEPT ![s] = ToastLoadFailed]
            /\ UNCHANGED latestContent
    /\ sess' = [sess EXCEPT ![s] = Idle]
    /\ UNCHANGED <<notePage, inFlight, commits, repoCount, profileRepoName, ensure, ensureLog,
                   hostTree, nested>>

NextPage ==
    \/ \E s \in Pages :
        \/ \E c \in EditorContents, messageOk \in BOOLEAN, env \in MainEnvs :
               handleConfirmSave(s, c, messageOk, env)
        \/ handleConfirmSaveReturn(s)
        \/ \E env \in MainEnvs, net \in {"ok", "fail"} : LoadNote(s, NotePath, env, net)
        \/ fetchNoteContentReturn(s)
    \/ \E s \in Sessions \ Pages :
        \/ \E call \in OtherCalls, env \in Envs : BeginWrite(s, call, env, MaxCommits)
        \/ Return(s)
    \/ \E s \in Sessions :
        \/ \E net \in {"ok", "fail"} : Lookup(s, net)
        \/ \E net \in {"ok", "fail", "lost"} : Write(s, net)

SpecPage == Init /\ [][NextPage]_vars

-----------------------------------------------------------------------------
(* One session that saves one note again and again and lists its history.  *)

HistoryContent == AstralText

NextHistory ==
    \/ \E env \in MainEnvs :
           BeginWrite("tab1", SaveCall(NotePath, HistoryContent), env, MaxHistory)
    \/ \E net \in {"ok", "fail"} : Lookup("tab1", net)
    \/ \E net \in {"ok", "fail", "lost"} : Write("tab1", net)
    \/ \E env \in MainEnvs, net \in {"ok", "fail"} : GetNoteHistory("tab1", NotePath, env, net)
    \/ \E env \in MainEnvs, net \in {"ok", "fail"} : LoadNote("tab1", NotePath, env, net)
    \/ Return("tab1")

SpecHistory == Init /\ [][NextHistory]_vars

-----------------------------------------------------------------------------
(* Provisioning (repoActions.ts) on an account that starts without the      *)
(* repository.                                                              *)

(* the answers a request can get besides the host's own: the status of the  *)
(* error the client raises (0: an error without a status property)          *)
Faults == {401, 403, 500, 0}
Reached == 200

(* GET /repos/{owner}/{repo} *)
HostGetRepo(count) == IF count > 0 THEN 200 ELSE 404

(* POST /user/repos: the name must be free *)
HostCreateRepo(count) == IF count = 0 THEN 201 ELSE 422

(* a variant: every failure of repos.get counts as an absent repository *)
checkRepoExistsAbsentOnError(status) ==
    IF status = 200 THEN Returned(TRUE) ELSE Returned(FALSE)

checkRepoExists(status) ==
    IF status = 200 THEN Returned(TRUE)
    ELSE IF status = 404 THEN Returned(FALSE)
    ELSE Threw("Could not check repository existence: ", HostMessage(status))

createGithubRepo(status) ==
    IF status = 201 THEN Returned(DRAFTER_REPO_NAME)
    ELSE Threw("Could not create GitHub repository: ", HostMessage(status))

(* a variant: the repository is never created *)
NeedsCreateNever(repoExists) == FALSE

(* checkAndCreateRepoIfNeeded: the branch taken after checkRepoExists *)
NeedsCreate(repoExists) == ~repoExists

(* what checkAndCreateRepoIfNeeded returns *)
CheckResult(repoExisted) ==
    [reached |-> TRUE, repoExisted |-> repoExisted, repoName |-> DRAFTER_REPO_NAME,
     error |-> ""]
CheckError(err) ==
    [reached |-> TRUE, repoExisted |-> FALSE, repoName |-> "", error |-> err[1] \o err[2]]

(* what ensureUserRepo returns *)
EnsureResult(success, repoName, error) ==
    [success |-> success, repoName |-> repoName, error |-> error]

(* the checks of ensureUserRepo before it calls checkAndCreateRepoIfNeeded *)
EnsurePrecondition(env) ==
    IF ~env.user THEN "User not authenticated."
    ELSE IF ~env.profile THEN "Could not fetch user profile."
    ELSE IF ~env.token THEN "Encrypted GitHub token not found in profile."
    ELSE IF ~env.decrypt THEN "Failed to decrypt GitHub token."
    ELSE IF ~env.githubUser THEN "Could not fetch GitHub user information."
    ELSE "ok"

(* the call returns `result` to its caller *)
EnsureReturns(c, e, result) ==
    /\ ensureLog' = Append(ensureLog, [before |-> e.before, check |-> e.check,
                                       reqs |-> e.reqs, answers |-> e.answers,
                                       result |-> result])
    /\ ensure' = [ensure EXCEPT ![c] = EnsureIdle]

(* step 7 of ensureUserRepo: is the profile row to be updated *)
UpdatesProfile(e) == ~e.hadName \/ ~e.check.repoExisted

(* ensureUserRepo up to the call of checkAndCreateRepoIfNeeded *)
ensureUserRepo(c, env) ==
    /\ ensure[c].pc = "idle"
    /\ Len(ensureLog) + Cardinality({d \in Callers : ensure[d].pc # "idle"}) < MaxEnsureCalls
    /\ LET pre == EnsurePrecondition(env)
           e == [EnsureIdle EXCEPT !.before = repoCount,
                                   !.hadName = profileRepoName # None]
       IN IF pre = "ok"
          THEN /\ ensure' = [ensure EXCEPT ![c] = [e EXCEPT !.pc = "check"]]
               /\ UNCHANGED ensureLog
          ELSE EnsureReturns(c, e, EnsureResult(FALSE, "", pre))
    /\ UNCHANGED <<notePage, inFlight, commits, repoCount, sess, latestContent, toast, profileRepoName,
                   hostTree, nested>>

(* checkAndCreateRepoIfNeeded: checkRepoExists and the branch on its result *)
CheckRepo(c, fault) ==
    /\ ensure[c].pc = "check"
    /\ LET status == IF fault = Reached THEN HostGetRepo(repoCount) ELSE fault
           r == checkRepoExists(status)
           e == [ensure[c] EXCEPT !.reqs = Append(@, "repos.get"),
                                  !.answers = Append(@, status)]
       IN IF r.threw
          THEN LET f == [e EXCEPT !.check = CheckError(r.error)]
               IN EnsureReturns(c, f, EnsureResult(FALSE, "", f.check.error))
          ELSE IF NeedsCreate(r.value)
          THEN /\ ensure' = [ensure EXCEPT ![c] = [e EXCEPT !.pc = "create"]]
               /\ UNCHANGED ensureLog
          ELSE LET f == [e EXCEPT !.check = CheckResult(TRUE)]
               IN IF UpdatesProfile(f)
                  THEN /\ ensure' = [ensure EXCEPT ![c] = [f EXCEPT !.pc = "update"]]
                       /\ UNCHANGED ensureLog
                  ELSE EnsureReturns(c, f, EnsureResult(TRUE, f.check.repoName, ""))
    /\ UNCHANGED <<notePage, inFlight, commits, repoCount, sess, latestContent, toast, profileRepoName,
                   hostTree, nested>>

(* checkAndCreateRepoIfNeeded: createGithubRepo.  net = "lost": the host    *)
(* creates the repository and its answer does not come back.                *)
CreateRepo(c, net) ==
    /\ ensure[c].pc = "create"
    /\ LET status == HostCreateRepo(repoCount)
           r == createGithubRepo(IF net = "ok" THEN status ELSE 500)
           e == [ensure[c] EXCEPT !.reqs = Append(@, "repos.createForAuthenticatedUser"),
                                  !.answers = Append(@, IF net = "ok" THEN status ELSE 500)]
       IN /\ repoCount' = IF net \in {"ok", "lost"} /\ status = 201
                          THEN repoCount + 1 ELSE repoCount
          /\ IF r.threw
             THEN LET f == [e EXCEPT !.check = CheckError(r.error)]
                  IN EnsureReturns(c, f, EnsureResult(FALSE, "", f.check.error))
             ELSE /\ ensure' = [ensure EXCEPT ![c] = [e EXCEPT !.pc = "update",
                                                              !.check = CheckResult(FALSE)]]
                  /\ UNCHANGED ensureLog
    /\ UNCHANGED <<notePage, inFlight, commits, sess, latestContent, toast, profileRepoName,
                   hostTree, nested>>

(* ensureUserRepo, step 7: the update of users.github_repo_name *)
UpdateProfile(c, ok) ==
    /\ ensure[c].pc = "update"
    /\ profileRepoName' = IF ok THEN Some(ensure[c].check.repoName) ELSE profileRepoName
    /\ EnsureReturns(c, ensure[c],
                     EnsureResult(TRUE, ensure[c].check.repoName,
                                  IF ok THEN "" ELSE "Failed to save repo name to profile."))
    /\ UNCHANGED <<notePage, inFlight, commits, repoCount, sess, latestContent, toast,
                   hostTree, nested>>

InitProvision ==
    /\ commits = <<>>
    /\ repoCount = 0
    /\ sess = [s \in Sessions |-> Idle]
    /\ latestContent = [s \in Sessions |-> EmptyText]
    /\ toast = [s \in Sessions |-> "none"]
    /\ profileRepoName = None
    /\ ensure = [c \in Callers |-> EnsureIdle]
    /\ ensureLog = <<>>
    /\ hostTree = NoListing
    /\ nested = [s \in Sessions |-> <<>>]
    /\ notePage = NoNotePage
    /\ inFlight = {}

NextProvision ==
    \/ \E env \in Envs : ensureUserRepo("callback", env)
    \/ \E fault \in Faults \cup {Reached} : CheckRepo("callback", fault)
    \/ \E net \in {"ok", "fail", "lost"} : CreateRepo("callback", net)
    \/ \E ok \in BOOLEAN : UpdateProfile("callback", ok)

SpecProvision == InitProvision /\ [][NextProvision]_vars

(* the sign-in callback and the sidebar's getNoteTree both call             *)
(* ensureUserRepo, and one call can begin before the other has returned     *)
NextRace ==
    \E c \in Callers :
        \/ \E env \in MainEnvs : ensureUserRepo(c, env)
        \/ \E fault \in {Reached, 500} : CheckRepo(c, fault)
        \/ \E net \in {"ok", "lost"} : CreateRepo(c, net)
        \/ \E ok \in BOOLEAN : UpdateProfile(c, ok)

SpecRace == InitProvision /\ [][NextRace]_vars

-----------------------------------------------------------------------------
(* Reads at the level of githubService: getRepoFileContent and             *)
(* getFileContentAtCommit called on a branch that other calls extend, with  *)
(* the answers a request can get.  fault = 200: the request reaches the     *)
(* host and the host answers from the branch; any other fault is the status *)
(* of the error the client raises (0: an error without a status property).  *)

HostFailure(status) ==
    [status |-> status, isArray |-> FALSE, type |-> "none", sha |-> None, content |-> None]

HostAnswer(log, p, k, fault) ==
    IF fault = Reached THEN HostGetContent(log, p, k) ELSE HostFailure(fault)

ReadOps == {"getRepoFileContent", "getFileContentAtCommit"}

ReadPaths == {NotePath, FolderPath, GitkeepPath(FolderPath)}

ReadResult(g) == IF g.threw THEN Failure(g.error) ELSE [Success EXCEPT !.content = g.value]

(* getRepoFileContent(token, owner, repo, p); lookupAt is the tip it read *)
ReadFileCall(s, p, fault) ==
    /\ sess[s].pc = "idle"
    /\ LET r == HostAnswer(commits, p, Len(commits), fault)
       IN sess' = [sess EXCEPT ![s] =
            [Idle EXCEPT !.pc = "done",
                         !.call = [op |-> "getRepoFileContent", path |-> p,
                                   content |-> EmptyText, ref |-> 0],
                         !.lookupAt = Len(commits),
                         !.ret = ReadResult(getRepoFileContent(r)),
                         !.outcome = ToString(r.status)]]
    /\ UNCHANGED <<notePage, inFlight, commits, repoCount, latestContent, toast, profileRepoName, ensure,
                   ensureLog,
                   hostTree, nested>>

(* getFileContentAtCommit(token, owner, repo, p, k); lookupAt is the commit *)
ReadAtCommitCall(s, p, k, fault) ==
    /\ sess[s].pc = "idle"
    /\ k \in 1..Len(commits)
    /\ LET r == HostAnswer(commits, p, getFileContentAtCommitRef(k, Len(commits)), fault)
       IN sess' = [sess EXCEPT ![s] =
            [Idle EXCEPT !.pc = "done",
                         !.call = [op |-> "getFileContentAtCommit", path |-> p,
                                   content |-> EmptyText, ref |-> k],
                         !.lookupAt = k,
                         !.ret = ReadResult(getFileContentAtCommit(r)),
                         !.outcome = ToString(r.status)]]
    /\ UNCHANGED <<notePage, inFlight, commits, repoCount, latestContent, toast, profileRepoName, ensure,
                   ensureLog,
                   hostTree, nested>>

(* the writes that put a note and a folder on the branch in SpecRead *)
ReadSpecCalls == {SaveCall(NotePath, AstralText), CreateFolderCall(FolderPath)}

NextRead ==
    \E s \in Sessions :
        \/ \E call \in ReadSpecCalls : BeginWrite(s, call, OkEnv, MaxCommits)
        \/ Lookup(s, "ok")
        \/ Write(s, "ok")
        \/ \E p \in ReadPaths, fault \in Faults \cup {Reached} : ReadFileCall(s, p, fault)
        \/ \E p \in ReadPaths, k \in 1..MaxCommits, fault \in Faults \cup {Reached} :
               ReadAtCommitCall(s, p, k, fault)
        \/ Return(s)

SpecRead == Init /\ [][NextRead]_vars

-----------------------------------------------------------------------------
(* The tree listing (getRepoTree, getNoteTree) and the sidebar that nests   *)
(* it (FileTreeSidebar).  The repository is an ordinary repository of the   *)
(* host: other clients push to it, so the branch may hold any file names.   *)

(* what the host may answer to git.getTree: the whole listing, or its first *)
(* entries with truncated = true; or the branch does not exist              *)
HostTrees ==
    { [branch |-> FALSE, tree |-> <<>>, truncated |-> FALSE] } \cup
    UNION { LET l == ListingOf({ TreeFiles[i] : i \in I })
            IN { [branch |-> TRUE, tree |-> l, truncated |-> FALSE] } \cup
               { [branch |-> TRUE, tree |-> SubSeq(l, 1, k), truncated |-> TRUE] :
                   k \in 1..(Len(l) - 1) }
          : I \in { J \in SUBSET (1..Len(TreeFiles)) : Cardinality(J) <= MaxFiles } }

TreeFailed(status) == [status |-> status, tree |-> <<>>, truncated |-> FALSE]

(* GET /repos/{owner}/{repo}/git/trees/main?recursive=true *)
HostGetTree(h, fault) ==
    IF fault # Reached THEN TreeFailed(fault)
    ELSE IF ~h.branch THEN TreeFailed(404)
    ELSE [status |-> 200, tree |-> h.tree, truncated |-> h.truncated]

(* a variant: the filter keeps the entries whose path starts with a dot *)
KeepsEntryHidden(item) ==
    /\ item.type \in {"blob", "tree"}
    /\ item.path # EmptyPath
    /\ ~EndsWith(PathString(item.path), Units(".gitkeep"))

(* the predicate of the filter of getRepoTree *)
KeepsEntry(item) ==
    /\ item.type \in {"blob", "tree"}
    /\ item.path # EmptyPath
    /\ ~StartsWith(PathString(item.path), Units("."))
    /\ ~EndsWith(PathString(item.path), Units(".gitkeep"))

(* data.tree.filter(...): the kept entries, in the order of the listing *)
RECURSIVE FilterTree(_)
FilterTree(seq) ==
    IF seq = <<>> THEN <<>>
    ELSE (IF KeepsEntry(Head(seq)) THEN <<Head(seq)>> ELSE <<>>) \o FilterTree(Tail(seq))

(* getRepoTree after the host answered `data`: the value is the filtered    *)
(* array; data.truncated goes to console.warn only                          *)
getRepoTree(data) ==
    IF data.status = 200
    THEN Returned(FilterTree(data.tree))
    ELSE Threw("Could not get repo tree: ", HostMessage(data.status))

(* GetTreeResult *)
TreeSuccess(tree) == [success |-> TRUE, tree |-> Some(tree), error |-> <<"", "">>]
TreeFailure(err) == [success |-> FALSE, tree |-> None, error |-> err]

(* ensureUserRepo as getNoteTree calls it on an account that has the        *)
(* repository and the profile row naming it: one repos.get request          *)
EnsureProvisioned(env, fault) ==
    LET pre == EnsurePrecondition(env)
        r == checkRepoExists(IF fault = Reached THEN HostGetRepo(repoCount) ELSE fault)
    IN IF pre # "ok" THEN EnsureResult(FALSE, "", pre)
       ELSE IF r.threw THEN EnsureResult(FALSE, "", CheckError(r.error).error)
       ELSE EnsureResult(TRUE, CheckResult(TRUE).repoName, "")

(* getNoteTree: the checks, ensureUserRepo, then getRepoTree on 'main' *)
getNoteTree(env, repoResult, data) ==
    IF ~env.user THEN TreeFailure(<<"", "User not authenticated.">>)
    ELSE IF ~env.profile THEN TreeFailure(<<"", "Could not fetch user profile.">>)
    ELSE IF ~repoResult.success \/ repoResult.repoName = ""
    THEN TreeFailure(<<"", IF repoResult.error # "" THEN repoResult.error
                           ELSE "Failed to ensure user repository before fetching tree.">>)
    ELSE IF ~env.token THEN TreeFailure(<<"", "Encrypted GitHub token not found in profile.">>)
    ELSE IF ~env.decrypt THEN TreeFailure(<<"", "Failed to decrypt GitHub token.">>)
    ELSE IF ~env.githubUser THEN TreeFailure(<<"", "Could not fetch GitHub user information.">>)
    ELSE LET g == getRepoTree(data)
         IN IF g.threw THEN TreeFailure(g.error) ELSE TreeSuccess(g.value)

(* one call of getNoteTree by session s; outcome names the answer of        *)
(* git.getTree when the call reached it, and reqs holds what the host sent  *)
GetNoteTree(s, env, checkFault, fault) ==
    /\ sess[s].pc = "idle"
    /\ repoCount > 0 /\ profileRepoName # None
    /\ LET repoResult == EnsureProvisioned(env, checkFault)
           data == HostGetTree(hostTree, fault)
           ret == getNoteTree(env, repoResult, data)
           reached == EnsurePrecondition(env) = "ok" /\ repoResult.success
       IN sess' = [sess EXCEPT ![s] =
            [Idle EXCEPT !.pc = "done",
                         !.call = [NoCall EXCEPT !.op = "getNoteTree"],
                         !.ret = ret,
                         !.outcome = IF reached THEN ToString(data.status) ELSE "none",
                         !.reqs = IF reached THEN <<data>> ELSE <<>>]]
    /\ UNCHANGED <<notePage, inFlight, commits, repoCount, latestContent, toast, profileRepoName, ensure,
                   ensureLog, hostTree, nested>>

(* buildNestedTree (FileTreeSidebar.tsx).  `map` is a plain object keyed by *)
(* path string: own holds its own properties in the order Object.values     *)
(* gives them (insertion order; no name of the model is an integer index),  *)
(* proto what the key "__proto__" was assigned: an assignment to that key   *)
(* sets the prototype of the object and creates no own property.            *)
EmptyMap == [own |-> <<>>, proto |-> None]

ProtoKey == <<"__proto__">>

IndexOf(seq, p) ==
    IF \E i \in 1..Len(seq) : seq[i].path = p
    THEN CHOOSE i \in 1..Len(seq) : seq[i].path = p
    ELSE 0

(* map[key] = node *)
MapSet(map, key, node) ==
    IF key = ProtoKey THEN [map EXCEPT !.proto = Some(node)]
    ELSE IF IndexOf(map.own, key) # 0
    THEN [map EXCEPT !.own[IndexOf(map.own, key)] = node]
    ELSE [map EXCEPT !.own = Append(@, node)]

(* map[key] && map[key].type === 'tree'.  A key that is no own property is  *)
(* looked up in the prototype: "__proto__" gives the prototype itself, the  *)
(* other path strings of the model name no property of it.                  *)
MapHasTree(map, key) ==
    IF key = ProtoKey
    THEN map.proto # None /\ The(map.proto).type = "tree"
    ELSE IndexOf(map.own, key) # 0 /\ map.own[IndexOf(map.own, key)].type = "tree"

(* the node of an item, before the hierarchy is built: [path, name, type];  *)
(* name is the last segment of the path                                     *)
NodeOf(item) == [path |-> item.path, name |-> item.path[Len(item.path)], type |-> item.type]

RECURSIVE InitNodes(_, _)
(* items.forEach(...): the first pass *)
InitNodes(map, items) ==
    IF items = <<>> THEN map
    ELSE LET item == Head(items)
         IN IF item.path = EmptyPath \/ item.type \notin {"blob", "tree"}
            THEN InitNodes(map, Tail(items))
            ELSE InitNodes(MapSet(map, item.path, NodeOf(item)), Tail(items))

(* node.path.substring(0, node.path.lastIndexOf('/')) *)
ParentPath(p) == SubSeq(p, 1, Len(p) - 1)

(* the second pass pushes the node to the children of its parent *)
HasParent(map, node) ==
    ParentPath(node.path) # EmptyPath /\ MapHasTree(map, ParentPath(node.path))

RECURSIVE SelectNodes(_, _, _)
(* the nodes of Object.values(map) pushed to the array of `parent`, in the  *)
(* order they are pushed; parent = EmptyPath: the array `tree`              *)
SelectNodes(map, nodes, parent) ==
    IF nodes = <<>> THEN <<>>
    ELSE LET n == Head(nodes)
             here == IF parent = EmptyPath THEN ~HasParent(map, n)
                     ELSE HasParent(map, n) /\ ParentPath(n.path) = parent
         IN (IF here THEN <<n>> ELSE <<>>) \o SelectNodes(map, Tail(nodes), parent)

(* the collation weight of a code unit under localeCompare: punctuation     *)
(* before letters, letters in alphabetical order whatever their case        *)
Primary(u) ==
    IF u \in 97..122 THEN 100 + (u - 97)
    ELSE IF u \in 65..90 THEN 100 + (u - 65)
    ELSE IF u = 95 THEN 1
    ELSE IF u = 46 THEN 2
    ELSE 50

(* the case level: a lowercase letter before the same letter in uppercase *)
Tertiary(u) == IF u \in 65..90 THEN 1 ELSE 0

PrimaryKey(name) == [i \in 1..Len(Units(name)) |-> Primary(Units(name)[i])]
TertiaryKey(name) == [i \in 1..Len(Units(name)) |-> Tertiary(Units(name)[i])]

RECURSIVE CompareKeys(_, _)
(* the order of two sort keys: weight by weight, a prefix first *)
CompareKeys(x, y) ==
    IF x = <<>> /\ y = <<>> THEN 0
    ELSE IF x = <<>> THEN -1
    ELSE IF y = <<>> THEN 1
    ELSE IF Head(x) < Head(y) THEN -1
    ELSE IF Head(x) > Head(y) THEN 1
    ELSE CompareKeys(Tail(x), Tail(y))

(* a.localeCompare(b): negative, zero or positive *)
LocaleCompare(a, b) ==
    LET first == CompareKeys(PrimaryKey(a), PrimaryKey(b))
    IN IF first # 0 THEN first ELSE CompareKeys(TertiaryKey(a), TertiaryKey(b))

(* a variant: the comparator puts files before folders *)
CompareNodesFilesFirst(a, b) ==
    IF a.type = "tree" /\ b.type = "blob" THEN 1
    ELSE IF a.type = "blob" /\ b.type = "tree" THEN -1
    ELSE LocaleCompare(a.name, b.name)

(* the comparator of sortNodes *)
CompareNodes(a, b) ==
    IF a.type = "tree" /\ b.type = "blob" THEN -1
    ELSE IF a.type = "blob" /\ b.type = "tree" THEN 1
    ELSE LocaleCompare(a.name, b.name)

RECURSIVE SelectBy(_, _, _)
(* the nodes of a sequence that go before x (side = "before") and after it *)
SelectBy(nodes, x, side) ==
    IF nodes = <<>> THEN <<>>
    ELSE (IF (CompareNodes(Head(nodes), x) <= 0) <=> (side = "before")
          THEN <<Head(nodes)>> ELSE <<>>) \o SelectBy(Tail(nodes), x, side)

RECURSIVE StableSort(_)
(* Array.prototype.sort with the comparator: a stable sort, nodes that      *)
(* compare equal keep the order they had                                    *)
StableSort(nodes) ==
    IF nodes = <<>> THEN <<>>
    ELSE LET front == StableSort(SubSeq(nodes, 1, Len(nodes) - 1))
             x == nodes[Len(nodes)]
         IN SelectBy(front, x, "before") \o <<x>> \o SelectBy(front, x, "after")

RECURSIVE sortNodes(_, _)
(* sortNodes(nodes): the array sorted, and the children of each folder of   *)
(* it sorted the same way; a node of the result is [path, name, type,       *)
(* children]                                                                *)
sortNodes(map, nodes) ==
    LET sorted == StableSort(nodes)
    IN [i \in 1..Len(sorted) |->
          [path |-> sorted[i].path, name |-> sorted[i].name, type |-> sorted[i].type,
           children |-> IF sorted[i].type = "tree"
                        THEN sortNodes(map, SelectNodes(map, map.own, sorted[i].path))
                        ELSE <<>>]]

buildNestedTree(items) ==
    LET map == InitNodes(EmptyMap, items)
    IN sortNodes(map, SelectNodes(map, map.own, EmptyPath))

(* fetchTree of the sidebar, after getNoteTree returned *)
fetchTreeReturn(s) ==
    /\ s \in Pages
    /\ Done(s, "getNoteTree")
    /\ IF sess[s].ret.success /\ sess[s].ret.tree # None
       THEN /\ nested' = [nested EXCEPT ![s] = buildNestedTree(The(sess[s].ret.tree))]
            /\ UNCHANGED toast
       ELSE /\ toast' = [toast EXCEPT ![s] = sess[s].ret.error[1] \o sess[s].ret.error[2]]
            /\ UNCHANGED nested
    /\ sess' = [sess EXCEPT ![s] = Idle]
    /\ UNCHANGED <<notePage, inFlight, commits, repoCount, latestContent, profileRepoName, ensure, ensureLog,
                   hostTree>>

InitTree ==
    /\ commits = <<>>
    /\ repoCount = 1
    /\ sess = [s \in Sessions |-> Idle]
    /\ latestContent = [s \in Sessions |-> EmptyText]
    /\ toast = [s \in Sessions |-> "none"]
    /\ profileRepoName = Some(DRAFTER_REPO_NAME)
    /\ ensure = [c \in Callers |-> EnsureIdle]
    /\ ensureLog = <<>>
    /\ hostTree \in HostTrees
    /\ nested = [s \in Sessions |-> <<>>]
    /\ notePage = NoNotePage
    /\ inFlight = {}

(* one sidebar, which calls getNoteTree again whenever it refreshes *)
NextTree ==
    \E s \in Pages :
        \/ \E env \in MainEnvs, checkFault \in {Reached, 500}, fault \in Faults \cup {Reached} :
               GetNoteTree(s, env, checkFault, fault)
        \/ fetchTreeReturn(s)

SpecTree == InitTree /\ [][NextTree]_vars

-----------------------------------------------------------------------------
(* Notes and folders made from the sidebar: one session creates and saves,  *)
(* the sidebar of the other lists the branch after each change.             *)

FileCalls ==
    {SaveCall(NotePath, AstralText), CreateNoteCall(NotePath), CreateFolderCall(FolderPath)}

NextFiles ==
    \/ \E s \in Pages :
        \/ \E fault \in {Reached, 500} : GetNoteTree(s, OkEnv, Reached, fault)
        \/ fetchTreeReturn(s)
    \/ \E s \in Sessions \ Pages :
        \/ \E call \in FileCalls : BeginWrite(s, call, OkEnv, MaxCommits)
        \/ \E net \in {"ok", "fail"} : Lookup(s, net)
        \/ \E net \in {"ok", "fail", "lost"} : Write(s, net)
        \/ Return(s)

SpecFiles == Init /\ [][NextFiles]_vars

-----------------------------------------------------------------------------
(* The six note actions called with every path and every combination of     *)
(* answers of the session and the profile store, on a profile that names    *)
(* the repository or does not.                                              *)

GuardPaths == {EmptyPath, NotePath}

GuardCalls ==
    {SaveCall(p, AstralText) : p \in GuardPaths}
    \cup {CreateNoteCall(p) : p \in GuardPaths}
    \cup {CreateFolderCall(p) : p \in {EmptyPath, FolderPath}}

InitGuards ==
    /\ commits = <<>>
    /\ repoCount = 1
    /\ sess = [s \in Sessions |-> Idle]
    /\ latestContent = [s \in Sessions |-> EmptyText]
    /\ toast = [s \in Sessions |-> "none"]
    /\ profileRepoName \in {None, Some(DRAFTER_REPO_NAME)}
    /\ ensure = [c \in Callers |-> EnsureIdle]
    /\ ensureLog = <<>>
    /\ hostTree = NoListing
    /\ nested = [s \in Sessions |-> <<>>]
    /\ notePage = NoNotePage
    /\ inFlight = {}

NextGuards ==
    \E s \in Pages :
        \/ \E call \in GuardCalls, env \in Envs : BeginWrite(s, call, env, MaxCommits)
        \/ \E net \in {"ok", "fail"} : Lookup(s, net)
        \/ \E net \in {"ok", "fail"} : Write(s, net)
        \/ \E p \in GuardPaths, env \in Envs, net \in {"ok", "fail"} : LoadNote(s, p, env, net)
        \/ \E p \in GuardPaths, k \in 1..MaxCommits, env \in Envs, net \in {"ok", "fail"} :
               GetNoteVersion(s, p, k, env, net)
        \/ \E p \in GuardPaths, env \in Envs, net \in {"ok", "fail"} :
               GetNoteHistory(s, p, env, net)
        \/ Return(s)

SpecGuards == InitGuards /\ [][NextGuards]_vars

-----------------------------------------------------------------------------
(* NotePage, the component behind /notes/[...slug].  One instance stays     *)
(* mounted while the path changes.  Every server action it awaits is an     *)
(* element of inFlight: the action runs on the server (Serve) and its       *)
(* result reaches the continuation after the await (Respond) in separate    *)
(* steps, so the answers of calls that overlap arrive in any order.         *)

SecondPath == <<"x.md">>
PagePaths == {NotePath, SecondPath}

(* what the user types into the editor *)
TypedTexts == {AstralText}

(* '# Content not found at this version' *)
ContentNotFoundText == <<35>>

(* a call the page awaits.  sha: the commitSha argument; text: the content  *)
(* argument of saveNote, and for getNoteVersion the latestContent its       *)
(* closure holds; live: the isMounted flag of the effect run that issued a  *)
(* loadNote                                                                 *)
Call(kind, path, sha, text) ==
    [kind |-> kind, path |-> path, sha |-> sha, text |-> text, live |-> TRUE,
     served |-> FALSE, ret |-> NoRet]

(* a variant: nothing is read-only *)
isReadOnlyNever(p) == FALSE

isReadOnly(p) == p.selectedCommitSha # 0

(* the editor after a render: a spinner replaces it while a version or the  *)
(* note loads, and a change of key mounts a new instance, which takes       *)
(* initialContent once                                                      *)
Render(p) ==
    IF p.isVersionLoading \/ ~p.initialLoadComplete
    THEN [p EXCEPT !.editor = NoEditor]
    ELSE IF p.editor.mounted /\ p.editor.path = p.path /\ p.editor.sha = p.selectedCommitSha
    THEN p
    ELSE [p EXCEPT !.editor = [mounted |-> TRUE, path |-> p.path, sha |-> p.selectedCommitSha,
                               text |-> p.displayedContent, from |-> p.displayedFrom]]

(* the load effect up to the call of loadNote *)
LoadEffect(p, q) ==
    Render([p EXCEPT !.path = q, !.initialLoadComplete = FALSE, !.selectedCommitSha = 0,
                     !.history = None, !.displayedContent = EmptyText,
                     !.displayedFrom = NoSource])

otherVars ==
    <<repoCount, sess, latestContent, toast, profileRepoName, ensure, ensureLog, nested>>

(* the page may begin one more save: n of its saves have not been served yet *)
SaveRoom(n) == Cardinality(inFlight) < MaxInFlight /\ Len(commits) + n < MaxSaves

UnservedSaves == Cardinality({c \in inFlight : c.kind = "saveNote" /\ ~c.served})

(* params change to path q: the cleanup of the previous effect run clears   *)
(* its isMounted, then the effect runs for q                                *)
Navigate(q) ==
    /\ q # notePage.path
    /\ Cardinality(inFlight) < MaxInFlight
    /\ notePage' = LoadEffect(notePage, q)
    /\ inFlight' = {IF c.kind = "loadNote" THEN [c EXCEPT !.live = FALSE] ELSE c : c \in inFlight}
                   \cup {Call("loadNote", q, 0, EmptyText)}
    /\ UNCHANGED <<commits, hostTree>>
    /\ UNCHANGED otherVars

(* the result of a call handled on the branch as it is now *)
ServedResult(c, net) ==
    LET tip == Len(commits)
        at(k) == IF net = "ok" THEN HostGetContent(commits, c.path, k) ELSE NetFailure
    IN CASE c.kind = "loadNote" -> ReadResult(getRepoFileContent(at(tip)))
         [] c.kind = "getNoteVersion" ->
                ReadResult(getFileContentAtCommit(at(getFileContentAtCommitRef(c.sha, tip))))
         [] c.kind = "getNoteHistory" ->
                LET g == IF net = "ok"
                         THEN getCommitHistoryForFile(200, HostListCommits(commits, c.path))
                         ELSE getCommitHistoryForFile(500, <<>>)
                IN IF g.threw THEN Failure(g.error) ELSE [Success EXCEPT !.history = g.value]
         [] c.kind = "saveNote" ->
                LET g == getFileSha(at(tip))
                    status == HostPutStatus(commits, c.path, commitFileSha(c.path, g.value))
                    cf == commitFile(IF net = "ok" THEN status ELSE 500)
                IN IF g.threw THEN Failure(g.error)
                   ELSE IF cf.threw THEN Failure(cf.error) ELSE Success

(* the server runs the action of one of the calls *)
Serve(net) ==
    \E c \in inFlight :
    /\ ~c.served
    /\ LET ret == ServedResult(c, net)
           applied == c.kind = "saveNote" /\ ret.success
       IN /\ inFlight' = (inFlight \ {c}) \cup {[c EXCEPT !.served = TRUE, !.ret = ret]}
          /\ commits' = IF applied
                        THEN Append(commits, [path |-> c.path,
                                              content |-> EncodeContent(c.text),
                                              plain |-> c.text])
                        ELSE commits
          /\ hostTree' = IF applied THEN PushedTree(hostTree, c.path) ELSE hostTree
    /\ UNCHANGED notePage
    /\ UNCHANGED otherVars

(* a variant: the continuation of fetchNoteContent does not look at isMounted *)
LoadAppliesAlways(c) == TRUE

(* fetchNoteContent: `if (isMounted)` *)
LoadApplies(c) == c.live

(* fetchNoteContent after loadNote has returned *)
LoadResponse(p, c) ==
    IF ~LoadApplies(c) THEN p
    ELSE IF c.ret.success
    THEN LET content == IF c.ret.content = None THEN EmptyText ELSE The(c.ret.content)
         IN [p EXCEPT !.latestContent = content, !.displayedContent = content,
                      !.displayedFrom = [kind |-> "load", path |-> c.path, sha |-> 0],
                      !.initialLoadComplete = TRUE]
    ELSE [p EXCEPT !.initialLoadComplete = TRUE]

(* handleFetchHistory after getNoteHistory has returned *)
HistoryResponse(p, c) ==
    [p EXCEPT !.history = IF c.ret.success THEN Some(c.ret.history) ELSE None,
              !.isHistoryLoading = FALSE]

(* handleSelectVersion after getNoteVersion has returned *)
VersionResponse(p, c) ==
    IF c.ret.success
    THEN [p EXCEPT !.displayedContent = IF c.ret.content = None
                                        THEN ContentNotFoundText ELSE The(c.ret.content),
                   !.displayedFrom = [kind |-> "version", path |-> c.path, sha |-> c.sha],
                   !.isVersionLoading = FALSE]
    ELSE [p EXCEPT !.displayedContent = c.text,
                   !.displayedFrom = [kind |-> "latest", path |-> c.path, sha |-> 0],
                   !.selectedCommitSha = 0,
                   !.isVersionLoading = FALSE]

(* handleConfirmSave after saveNote has returned *)
SaveResponse(p, c) ==
    IF c.ret.success THEN [p EXCEPT !.latestContent = c.text, !.history = None] ELSE p

(* the result of one of the calls reaches the page *)
Respond ==
    \E c \in inFlight :
    /\ c.served
    /\ inFlight' = inFlight \ {c}
    /\ notePage' = Render(CASE c.kind = "loadNote" -> LoadResponse(notePage, c)
                            [] c.kind = "getNoteHistory" -> HistoryResponse(notePage, c)
                            [] c.kind = "getNoteVersion" -> VersionResponse(notePage, c)
                            [] c.kind = "saveNote" -> SaveResponse(notePage, c))
    /\ UNCHANGED <<commits, hostTree>>
    /\ UNCHANGED otherVars

(* the Drafts menu is opened while history is null: handleFetchHistory up   *)
(* to the call of getNoteHistory.  The commit dialog is modal.              *)
OpenDrafts ==
    /\ ~notePage.isCommitDialogOpen
    /\ ~notePage.isHistoryLoading /\ notePage.initialLoadComplete
    /\ notePage.history = None
    /\ Cardinality(inFlight) < MaxInFlight
    /\ notePage' = [notePage EXCEPT !.isHistoryLoading = TRUE]
    /\ inFlight' = inFlight \cup {Call("getNoteHistory", notePage.path, 0, EmptyText)}
    /\ UNCHANGED <<commits, hostTree>>
    /\ UNCHANGED otherVars

(* the commits the Drafts menu lists *)
Listed(p) ==
    IF p.history = None THEN {}
    ELSE {The(p.history)[i].sha : i \in 1..Len(The(p.history))}

(* an item of the Drafts menu is selected: handleSelectVersion up to the    *)
(* call of getNoteVersion (k = 0: the item 'Latest Version')                *)
SelectVersion(k) ==
    /\ ~notePage.isCommitDialogOpen
    /\ notePage.initialLoadComplete
    /\ ~notePage.isVersionLoading /\ notePage.selectedCommitSha # k
    /\ IF k = 0
       THEN /\ notePage' = Render([notePage EXCEPT
                                     !.selectedCommitSha = 0,
                                     !.displayedContent = notePage.latestContent,
                                     !.displayedFrom = [kind |-> "latest",
                                                        path |-> notePage.path, sha |-> 0]])
            /\ UNCHANGED inFlight
       ELSE /\ k \in Listed(notePage)
            /\ Cardinality(inFlight) < MaxInFlight
            /\ notePage' = Render([notePage EXCEPT !.selectedCommitSha = k,
                                                   !.isVersionLoading = TRUE,
                                                   !.displayedContent = EmptyText,
                                                   !.displayedFrom = NoSource])
            /\ inFlight' = inFlight
                           \cup {Call("getNoteVersion", notePage.path, k, notePage.latestContent)}
    /\ UNCHANGED <<commits, hostTree>>
    /\ UNCHANGED otherVars

(* handlePromptSave: `editorRef.current?.isEmpty()` is undefined without an *)
(* editor                                                                   *)
handlePromptSave(p) ==
    IF isReadOnly(p) THEN p
    ELSE IF p.editor.mounted /\ p.editor.text = EmptyText THEN p
    ELSE [p EXCEPT !.isCommitDialogOpen = TRUE]

(* the Save button: disabled={isReadOnly || isVersionLoading || !initialLoadComplete} *)
ClickSave ==
    /\ ~notePage.isCommitDialogOpen
    /\ ~isReadOnly(notePage) /\ ~notePage.isVersionLoading /\ notePage.initialLoadComplete
    /\ notePage' = handlePromptSave(notePage)
    /\ notePage' # notePage
    /\ UNCHANGED <<commits, hostTree, inFlight>>
    /\ UNCHANGED otherVars

(* the keydown listener of the window, Ctrl+S or Cmd+S *)
CtrlS ==
    /\ notePage.initialLoadComplete /\ ~isReadOnly(notePage)
    /\ notePage' = handlePromptSave(notePage)
    /\ notePage' # notePage
    /\ UNCHANGED <<commits, hostTree, inFlight>>
    /\ UNCHANGED otherVars

(* a variant: the ref keeps the handle of an editor that is gone *)
ContentToSaveUnchecked(p) == Some(p.editor.text)

(* handleConfirmSave: editorRef.current?.getMarkdown() *)
ContentToSave(p) == IF p.editor.mounted THEN Some(p.editor.text) ELSE None

(* the Save Changes button of the commit dialog: handleConfirmSave up to    *)
(* the call of saveNote, with a commit message that is not blank            *)
ConfirmSave ==
    /\ notePage.isCommitDialogOpen
    /\ notePage' = [notePage EXCEPT !.isCommitDialogOpen = FALSE]
    /\ LET contentToSave == ContentToSave(notePage)
       IN IF contentToSave = None
          THEN UNCHANGED inFlight
          ELSE /\ SaveRoom(UnservedSaves)
               /\ inFlight' = inFlight
                              \cup {Call("saveNote", notePage.path, 0, The(contentToSave))}
    /\ UNCHANGED <<commits, hostTree>>
    /\ UNCHANGED otherVars

(* the dialog is dismissed *)
CancelSave ==
    /\ notePage.isCommitDialogOpen
    /\ notePage' = [notePage EXCEPT !.isCommitDialogOpen = FALSE]
    /\ UNCHANGED <<commits, hostTree, inFlight>>
    /\ UNCHANGED otherVars

(* the user edits the note: the editor is editable when it was built with   *)
(* readOnly false                                                           *)
Type(text) ==
    /\ ~notePage.isCommitDialogOpen
    /\ notePage.editor.mounted /\ notePage.editor.sha = 0
    /\ notePage.editor.text # text
    /\ notePage' = [notePage EXCEPT !.editor.text = text]
    /\ UNCHANGED <<commits, hostTree, inFlight>>
    /\ UNCHANGED otherVars

(* the page has mounted on NotePath and its effect has called loadNote *)
InitNote ==
    /\ commits = <<>>
    /\ repoCount = 1
    /\ sess = [s \in Sessions |-> Idle]
    /\ latestContent = [s \in Sessions |-> EmptyText]
    /\ toast = [s \in Sessions |-> "none"]
    /\ profileRepoName = Some(DRAFTER_REPO_NAME)
    /\ ensure = [c \in Callers |-> EnsureIdle]
    /\ ensureLog = <<>>
    /\ hostTree = NoListing
    /\ nested = [s \in Sessions |-> <<>>]
    /\ notePage = LoadEffect(NoNotePage, NotePath)
    /\ inFlight = {Call("loadNote", NotePath, 0, EmptyText)}

(* one note: the page stays on NotePath *)
NextNote ==
    \/ \E net \in {"ok", "fail"} : Serve(net)
    \/ Respond
    \/ OpenDrafts
    \/ \E k \in 0..MaxSaves : SelectVersion(k)
    \/ ClickSave
    \/ CtrlS
    \/ ConfirmSave
    \/ CancelSave
    \/ \E text \in TypedTexts : Type(text)

SpecNote == InitNote /\ [][NextNote]_vars

(* the user also moves between the notes *)
NextNav ==
    \/ \E q \in PagePaths : Navigate(q)
    \/ \E net \in {"ok", "fail"} : Serve(net)
    \/ Respond
    \/ OpenDrafts
    \/ \E k \in 0..MaxSaves : SelectVersion(k)
    \/ ClickSave
    \/ CtrlS
    \/ ConfirmSave
    \/ CancelSave
    \/ \E text \in TypedTexts : Type(text)

SpecNav == InitNote /\ [][NextNav]_vars

-----------------------------------------------------------------------------
(* Steps and histories the properties speak about *)

ShaOf(f) == IF f = None THEN None ELSE Some(BlobSha(The(f)))

(* the string handed to the last write of p among the first k commits *)
PlainAt(log, p, k) == log[Max({i \in 1..k : log[i].path = p})].plain

LookupStep(s) == sess[s].pc = "lookup" /\ sess'[s].pc # "lookup"
WriteStep(s) == sess[s].pc = "write" /\ sess'[s].pc = "done"
LoadStep(s) ==
    sess[s].pc = "idle" /\ sess'[s].pc = "done" /\ sess'[s].call.op = "loadNote"


(* the commits on path p made after the first k *)
LandedSince(log, p, k) == {i \in (k + 1)..Len(log) : log[i].path = p}

-----------------------------------------------------------------------------
-----------------------------------------------------------------------------
(* What a caller can inspect of a failed result besides the host's own     *)
(* message text: the part of the error the code decides.  commitFile wraps *)
(* every failure of the write request in new Error with one fixed prefix.  *)
ResultKind(ret) == IF ret.success THEN "success" ELSE ret.error[1]

WriteFailed(s) ==
    /\ sess[s].pc = "done" /\ sess[s].call.op \in WriteOps
    /\ ~sess[s].ret.success
    /\ sess[s].outcome \in {"rejected", "failed", "lost"}

(* C2 as stated: a write the host rejects because the blob id is stale      *)
(* gives the caller a result of a kind no other failed write has; the file  *)
(* is not overwritten.                                                      *)
C2_ConflictIsDistinctKind ==
    \A s, t \in Sessions :
        (sess[s].pc = "done" /\ sess[s].outcome = "conflict" /\ WriteFailed(t))
        => (~sess[s].ret.success /\ ResultKind(sess[s].ret) # ResultKind(sess[t].ret))

-----------------------------------------------------------------------------
(* C3: in every interleaving of commitFile calls, a call's write is         *)
(* accepted only if the blob at the path at that moment is the one its own  *)
(* lookup returned (or the path is absent and the lookup found nothing);    *)
(* otherwise the host rejects it and the branch is unchanged.               *)
C3_WriteNeedsLookedUpBlob ==
    [][\A s \in Sessions :
         WriteStep(s) =>
           LET p == CommitPath(sess[s].call)
               now == HostFileAt(commits, p, Len(commits))
               then == HostFileAt(commits, p, sess[s].lookupAt)
           IN /\ commits' # commits => (ShaOf(now) = sess[s].sha /\ now = then)
              /\ now # then =>
                   (commits' = commits /\ ~sess'[s].ret.success
                      /\ sess'[s].outcome \in {"conflict", "rejected", "failed"})]_vars

C3_Witness ==
    \E s, t \in Sessions :
        /\ s # t
        /\ Done(s, "saveNote") /\ sess[s].outcome = "accepted"
        /\ Done(t, "saveNote") /\ sess[t].outcome = "conflict"
        /\ sess[t].lookupAt < Len(commits)

-----------------------------------------------------------------------------
(* C6 as stated: whenever the write action returns an error the branch is   *)
(* what it was before the call, and a write that created a commit is        *)
(* reported as success.                                                     *)
C6_ErrorMeansNoCommit ==
    [][\A s \in Sessions :
         /\ LookupStep(s) => commits' = commits
         /\ WriteStep(s) => (sess'[s].ret.success <=> commits' # commits)]_vars

(* C6 amended: a call never commits partially: it leaves the branch as it   *)
(* was or appends exactly one commit holding its whole content at its path; *)
(* when it reports success the commit was made; when it returns an error    *)
(* the branch is unchanged, except that a write the host applied whose      *)
(* answer was lost is returned as an error although the commit exists.      *)
C6_NoPartialWrite ==
    [][\A s \in Sessions :
         /\ LookupStep(s) => commits' = commits
         /\ WriteStep(s) =>
              LET call == sess[s].call
                  whole == Append(commits,
                                  [path |-> CommitPath(call),
                                   content |-> EncodeContent(CommitContent(call)),
                                   plain |-> CommitContent(call)])
              IN /\ commits' \in {commits, whole}
                 /\ sess'[s].ret.success => commits' = whole
                 /\ (~sess'[s].ret.success /\ sess'[s].outcome # "lost")
                      => commits' = commits
                 /\ sess'[s].outcome = "lost"
                      => (commits' = whole /\ ~sess'[s].ret.success)]_vars

C6_Witness ==
    \E s, t \in Sessions :
        /\ Done(s, "saveNote") /\ sess[s].outcome = "failed" /\ sess[s].reqs # <<>>
        /\ Done(t, "saveNote") /\ sess[t].outcome = "lost"
        /\ Len(commits) = 1

-----------------------------------------------------------------------------
-----------------------------------------------------------------------------
(* C10: every commitFile execution looks the blob id up before its write    *)
(* request, sends at most one write request, and the request carries a blob *)
(* id exactly when the lookup found a file, namely the id it returned.      *)
C10_WriteProtocol ==
    \A s \in Sessions :
        LET r == sess[s].reqs
            p == CommitPath(sess[s].call)
            found == HostFileAt(commits, p, sess[s].lookupAt)
        IN /\ Len(r) <= 2
           /\ Len(r) >= 1 => (r[1].kind = "getContent" /\ r[1].path = p)
           /\ Len(r) = 2 =>
                /\ r[2].kind = "put" /\ r[2].path = p
                /\ r[2].sha = sess[s].sha
                /\ (r[2].sha # None <=> found # None)
                /\ found # None => r[2].sha = Some(BlobSha(The(found)))
           /\ (sess[s].pc = "done" /\ sess[s].outcome # "none") => Len(r) = 2
           /\ sess[s].pc = "write" => Len(r) = 1

C10_Witness ==
    \E s \in Sessions :
        /\ Done(s, "saveNote") /\ sess[s].outcome = "accepted"
        /\ Len(sess[s].reqs) = 2
        /\ sess[s].reqs[2].sha = Some(BlobSha(EncodeContent(AstralText)))

-----------------------------------------------------------------------------
(* the commit a write call makes when the host applies it *)
CommitOf(call) ==
    [path |-> CommitPath(call), content |-> EncodeContent(CommitContent(call)),
     plain |-> CommitContent(call)]

(* C4: a write is rejected for a blob id conflict only when a commit to the *)
(* same path landed between its own lookup and its own write; when none     *)
(* landed and the host answered, the write is accepted and its content is   *)
(* the content at the branch tip, whichever version the page had loaded.    *)
C4_LastWriterWins ==
    [][\A s \in Sessions :
         WriteStep(s) =>
           LET p == CommitPath(sess[s].call)
               landed == LandedSince(commits, p, sess[s].lookupAt)
           IN /\ sess'[s].outcome = "conflict" => landed # {}
              /\ (landed = {} /\ ~HostIsDirAt(commits, p, Len(commits))
                    /\ sess'[s].outcome \notin {"failed", "lost"})
                 => /\ sess'[s].outcome = "accepted" /\ sess'[s].ret.success
                    /\ commits' = Append(commits, CommitOf(sess[s].call))
                    /\ PlainAt(commits', p, Len(commits')) = CommitContent(sess[s].call)]_vars

(* the page loaded the first version, the other session replaced it, the    *)
(* page's save looked the blob up afterwards and was accepted               *)
C4_Witness ==
    /\ Len(commits) = 3
    /\ \A i \in 1..3 : commits[i].path = NotePath
    /\ commits[1].plain = AstralText /\ commits[2].plain = EmptyText
    /\ commits[3].plain = LoneText
    /\ latestContent["tab1"] = AstralText /\ toast["tab1"] = "none"
    /\ Done("tab1", "saveNote") /\ sess["tab1"].outcome = "accepted"
    /\ sess["tab1"].lookupAt = 2 /\ sess["tab1"].ret.success
    /\ sess["tab1"].call.content = LoneText

-----------------------------------------------------------------------------
(* C5: saveNote, createNote and createFolder return success only if the     *)
(* host accepted the commit of that call; the page shows the saved toast    *)
(* and replaces latestContent by the saved content only when the result it  *)
(* received has success = true.                                             *)
C5_NoFalseSuccess ==
    [][\A s \in Sessions :
         /\ (sess'[s].pc = "done" /\ sess'[s].call.op \in WriteOps /\ sess'[s].ret.success)
            => \/ sess'[s] = sess[s]
               \/ /\ WriteStep(s) /\ sess'[s].outcome = "accepted"
                  /\ HostPutStatus(commits, CommitPath(sess[s].call), sess[s].sha) \in {200, 201}
                  /\ commits' = Append(commits, CommitOf(sess[s].call))
         /\ (Done(s, "saveNote") /\ sess'[s].pc = "idle" /\ s \in Pages)
            => /\ toast'[s] = ToastSaved => sess[s].ret.success
               /\ latestContent'[s] # latestContent[s] => sess[s].ret.success
               /\ ~sess[s].ret.success => toast'[s] = ToastSaveFailed
         /\ (toast'[s] = ToastSaved /\ toast[s] # ToastSaved)
            => (Done(s, "saveNote") /\ sess[s].ret.success)]_vars

(* the page has shown the saved toast for an accepted save and after that   *)
(* the failure toast for a save the host rejected                          *)
C5_Witness ==
    /\ toast["tab1"] = ToastSaveFailed
    /\ latestContent["tab1"] = LoneText
    /\ sess["tab1"].pc = "idle"
    /\ Len(commits) = 3
    /\ commits[1].plain = LoneText /\ commits[2].plain = AstralText
    /\ commits[3].path = GitkeepPath(FolderPath)
    /\ Done("tab2", "createFolder") /\ sess["tab2"].ret.success

-----------------------------------------------------------------------------
(* what listHistory(p) returns and what readFile(p) returns on branch log *)
ListHistory(log, p) == getCommitHistoryForFile(200, HostListCommits(log, p)).value
ReadFile(log, p) == getRepoFileContent(HostGetContent(log, p, Len(log))).value

(* C7 as stated: a successful write of c2 to a path that holds a file,      *)
(* after any number of earlier writes, makes readFile return c2 and makes   *)
(* listHistory return exactly one more entry than before the write.         *)
C7_UpdateAddsOneHistoryEntry ==
    [][(WriteStep("tab1") /\ sess'["tab1"].ret.success
          /\ HostFileAt(commits, NotePath, Len(commits)) # None)
       => /\ ReadFile(commits', NotePath) = Some(sess["tab1"].call.content)
          /\ Len(ListHistory(commits', NotePath)) = Len(ListHistory(commits, NotePath)) + 1]_vars

-----------------------------------------------------------------------------
(* a completed call that returned no error from checkAndCreateRepoIfNeeded *)
Ensured(e) == e.check.reached /\ e.check.error = ""
CreateRequests(e) ==
    Cardinality({i \in 1..Len(e.reqs) : e.reqs[i] = "repos.createForAuthenticatedUser"})

(* C9: of sequential calls that return without error, one that starts with  *)
(* no repository returns repoExisted = false after one create request, one  *)
(* that starts with the repository returns repoExisted = true, so every     *)
(* call after the first returns true; a call that starts with the           *)
(* repository sends no create request; and there is never more than one     *)
(* repository, and exactly one once a call has returned without error.      *)
C9_IdempotentProvisioning ==
    /\ repoCount <= 1
    /\ \A i \in 1..Len(ensureLog) :
         LET e == ensureLog[i]
         IN /\ e.before = 1 => CreateRequests(e) = 0
            /\ Ensured(e) =>
                 /\ e.result.success /\ e.result.repoName = DRAFTER_REPO_NAME
                 /\ e.check.repoExisted <=> e.before = 1
                 /\ CreateRequests(e) = (IF e.before = 0 THEN 1 ELSE 0)
                 /\ repoCount = 1
                 /\ \A j \in (i + 1)..Len(ensureLog) :
                      Ensured(ensureLog[j]) =>
                        (ensureLog[j].check.repoExisted /\ CreateRequests(ensureLog[j]) = 0)

C9_Witness ==
    /\ Len(ensureLog) = 2
    /\ ensureLog[1].before = 0 /\ Ensured(ensureLog[1]) /\ ~ensureLog[1].check.repoExisted
    /\ Ensured(ensureLog[2]) /\ ensureLog[2].check.repoExisted
    /\ ensureLog[2].reqs = <<"repos.get">>
    /\ repoCount = 1

-----------------------------------------------------------------------------
(* a finished read of githubService by session s *)
ReadDone(s) == sess[s].pc = "done" /\ sess[s].call.op \in ReadOps
FaultNames == {ToString(f) : f \in Faults}

(* the path of the read was neither a file nor a directory where it read *)
AbsentWhereRead(s) ==
    /\ HostFileAt(commits, sess[s].call.path, sess[s].lookupAt) = None
    /\ ~HostIsDirAt(commits, sess[s].call.path, sess[s].lookupAt)

(* the path of the read was a directory where it read *)
DirWhereRead(s) ==
    /\ HostFileAt(commits, sess[s].call.path, sess[s].lookupAt) = None
    /\ HostIsDirAt(commits, sess[s].call.path, sess[s].lookupAt)

(* C11: getRepoFileContent on a path never written and                      *)
(* getFileContentAtCommit on a path absent at the commit return null and do *)
(* not raise; a request that fails in any other way than not-found raises   *)
(* an error and is never answered with null.                                *)
C11_NotFoundIsNull ==
    \A s \in Sessions :
        ReadDone(s) =>
          /\ (sess[s].outcome \notin FaultNames /\ AbsentWhereRead(s))
             => (sess[s].outcome = "404" /\ sess[s].ret.success
                   /\ sess[s].ret.content = None)
          /\ sess[s].outcome \in FaultNames
             => (~sess[s].ret.success /\ sess[s].ret.error[1] # "")

C11_Witness ==
    /\ Len(commits) = 2
    /\ commits[1].path = GitkeepPath(FolderPath) /\ commits[2].path = NotePath
    /\ ReadDone("tab1") /\ sess["tab1"].call.op = "getFileContentAtCommit"
    /\ sess["tab1"].call.path = NotePath /\ sess["tab1"].call.ref = 1
    /\ sess["tab1"].outcome = "404" /\ sess["tab1"].ret.success
    /\ ReadDone("tab2") /\ sess["tab2"].call.op = "getRepoFileContent"
    /\ sess["tab2"].outcome = "403" /\ ~sess["tab2"].ret.success

-----------------------------------------------------------------------------
(* C12: when the path is a directory, getRepoFileContent at the branch tip  *)
(* and getFileContentAtCommit at the given commit return null and do not    *)
(* raise.                                                                   *)
C12_DirectoryIsNull ==
    \A s \in Sessions :
        (ReadDone(s) /\ sess[s].outcome \notin FaultNames /\ DirWhereRead(s))
        => (sess[s].outcome = "200" /\ sess[s].ret.success /\ sess[s].ret.content = None)

C12_Witness ==
    /\ ReadDone("tab1") /\ sess["tab1"].call.op = "getRepoFileContent"
    /\ DirWhereRead("tab1") /\ sess["tab1"].outcome = "200"
    /\ ReadDone("tab2") /\ sess["tab2"].call.op = "getFileContentAtCommit"
    /\ DirWhereRead("tab2") /\ sess["tab2"].outcome = "200"
    /\ sess["tab2"].lookupAt < Len(commits)

-----------------------------------------------------------------------------
(* The tree listing *)

(* session s holds the successful result of getNoteTree, made from the      *)
(* listing the host sent                                                    *)
TreeDone(s) == Done(s, "getNoteTree") /\ sess[s].ret.success
TreeOf(s) == The(sess[s].ret.tree)
RawTreeOf(s) == sess[s].reqs[1].tree

Members(seq) == { seq[i] : i \in 1..Len(seq) }

IsPlaceholderPath(p) == EndsWith(PathString(p), Units(".gitkeep"))
DotSegment(name) == StartsWith(Units(name), Units("."))
HasDotSegment(p) == \E k \in 1..Len(p) : DotSegment(p[k])

(* C13 as stated: getRepoTree returns no entry whose path ends in .gitkeep  *)
(* and no entry with a dot-prefixed segment anywhere in its path.           *)
C13_NoHiddenSegmentAnywhere ==
    \A s \in Sessions :
        TreeDone(s) =>
            \A e \in Members(TreeOf(s)) :
                ~IsPlaceholderPath(e.path) /\ ~HasDotSegment(e.path)

(* C13, amended: getRepoTree returns no entry whose path ends in .gitkeep   *)
(* and no entry whose path begins with a dot; an entry whose path has a     *)
(* dot-prefixed segment after the first one is returned like any other.     *)
C13_NoPlaceholderNoLeadingDot ==
    \A s \in Sessions :
        TreeDone(s) =>
            /\ \A e \in Members(TreeOf(s)) :
                   ~IsPlaceholderPath(e.path) /\ ~DotSegment(e.path[1])
            /\ \A e \in Members(RawTreeOf(s)) :
                   (e.type \in {"blob", "tree"} /\ ~DotSegment(e.path[1])
                    /\ ~IsPlaceholderPath(e.path))
                   => e \in Members(TreeOf(s))

C13_Witness ==
    \E s \in Sessions :
        /\ TreeDone(s)
        /\ \E e \in Members(RawTreeOf(s)) : DotSegment(e.path[1])
        /\ \E e \in Members(RawTreeOf(s)) : IsPlaceholderPath(e.path)
        /\ \E e \in Members(TreeOf(s)) : HasDotSegment(e.path)

(* C14 as stated: getRepoTree returns every file or directory entry of the  *)
(* raw listing that is not hidden and whose final segment is not exactly    *)
(* .gitkeep (notes.gitkeep is returned), and drops every submodule entry.   *)
C14_FilterComplete ==
    \A s \in Sessions :
        TreeDone(s) =>
            /\ \A e \in Members(RawTreeOf(s)) :
                   (e.type \in {"blob", "tree"} /\ ~HasDotSegment(e.path)
                    /\ e.path[Len(e.path)] # ".gitkeep")
                   => e \in Members(TreeOf(s))
            /\ \A e \in Members(TreeOf(s)) : e.type # "commit"

(* the result getNoteTree gives for the answer `data` of git.getTree when   *)
(* every check before the request passes                                    *)
TreeResultFor(data) ==
    getNoteTree(OkEnv, EnsureResult(TRUE, DRAFTER_REPO_NAME, ""), data)

(* C15 as stated: when the host marks the listing as truncated, the call    *)
(* does not fail, and the result the caller receives tells that the listing *)
(* is incomplete: it is not the result the same entries give when the host  *)
(* sends them as a complete listing.                                        *)
C15_TruncationDetectable ==
    \A s \in Sessions :
        (Done(s, "getNoteTree") /\ sess[s].outcome = "200" /\ sess[s].reqs[1].truncated)
        => /\ sess[s].ret.success
           /\ sess[s].ret # TreeResultFor([sess[s].reqs[1] EXCEPT !.truncated = FALSE])

-----------------------------------------------------------------------------
(* the error checkAndCreateRepoIfNeeded returns when checkRepoExists raised *)
(* for a request answered with `status`                                     *)
CheckExistenceError(status) ==
    "Could not check repository existence: " \o HostMessage(status)

(* C17: when repos.get is answered not-found, checkRepoExists returns false *)
(* and the call goes on to the create request; when it fails in any other   *)
(* way, checkRepoExists raises (the call returns that error, with neither   *)
(* repoExisted = true nor a repository name) and no create request is sent. *)
C17_NotFoundIsNormalOthersRaise ==
    /\ \A c \in Callers : ensure[c].pc = "create" => ensure[c].answers = <<404>>
    /\ \A i \in 1..Len(ensureLog) :
         LET e == ensureLog[i]
         IN Len(e.answers) >= 1 =>
              /\ e.answers[1] = 404 =>
                    /\ Len(e.reqs) = 2 /\ e.reqs[2] = "repos.createForAuthenticatedUser"
                    /\ e.check.error # CheckExistenceError(404)
                    /\ Ensured(e) => ~e.check.repoExisted
              /\ e.answers[1] \notin {200, 404} =>
                    /\ e.reqs = <<"repos.get">>
                    /\ e.check.error = CheckExistenceError(e.answers[1])
                    /\ ~e.check.repoExisted /\ e.check.repoName = ""
                    /\ ~e.result.success /\ e.result.error = e.check.error

C17_Witness ==
    /\ \E i \in 1..Len(ensureLog) :
         /\ Len(ensureLog[i].answers) = 2 /\ ensureLog[i].answers[1] = 404
         /\ Ensured(ensureLog[i])
    /\ \E i \in 1..Len(ensureLog) :
         /\ ensureLog[i].answers = <<403>>
         /\ ensureLog[i].before = 0

-----------------------------------------------------------------------------
(* The forest of the sidebar *)

(* two names in order: by code units (lexicographic order of the strings),  *)
(* or by localeCompare                                                      *)
NamesInOrder(a, b, order) ==
    IF order = "codeUnit" THEN ~UnitsLess(Units(b), Units(a))
    ELSE LocaleCompare(a, b) <= 0

RECURSIVE SiblingsOrdered(_, _)
(* in `nodes` and in the children of every folder below, every folder is    *)
(* before every file and nodes of one kind are in the order of their names  *)
SiblingsOrdered(nodes, order) ==
    /\ \A i, j \in 1..Len(nodes) :
          i < j => /\ ~(nodes[i].type = "blob" /\ nodes[j].type = "tree")
                   /\ nodes[i].type = nodes[j].type
                      => NamesInOrder(nodes[i].name, nodes[j].name, order)
    /\ \A i \in 1..Len(nodes) :
          nodes[i].type = "tree" => SiblingsOrdered(nodes[i].children, order)

BuildStep(s) == s \in Pages /\ TreeDone(s) /\ sess'[s].pc = "idle"

RECURSIVE FlatNodes(_, _)
(* every node of a forest with the path of the node it is a child of        *)
(* (EmptyPath for a root node), each as often as it occurs                  *)
FlatNodes(nodes, parent) ==
    IF nodes = <<>> THEN <<>>
    ELSE <<[path |-> Head(nodes).path, parent |-> parent]>>
         \o FlatNodes(Head(nodes).children, Head(nodes).path)
         \o FlatNodes(Tail(nodes), parent)

(* where the reconstruction rule puts an entry of `items` *)
ExpectedParent(items, e) ==
    IF \E f \in Members(items) : f.path = ParentPath(e.path)
    THEN ParentPath(e.path) ELSE EmptyPath

Placed(items, forest) ==
    LET flat == FlatNodes(forest, EmptyPath)
    IN /\ Len(flat) = Len(items)
       /\ \A e \in Members(items) :
             \E k \in 1..Len(flat) :
                 /\ flat[k] = [path |-> e.path, parent |-> ExpectedParent(items, e)]
                 /\ \A l \in 1..Len(flat) : flat[l].path = e.path => l = k

(* C19 as stated: buildNestedTree places each entry of the list exactly     *)
(* once in the forest, under the node whose path is the entry's path        *)
(* without its final segment when that node is in the list and at the root  *)
(* otherwise; no entry is lost or duplicated.                               *)
C19_EachEntryPlacedOnce ==
    [][\A s \in Pages : BuildStep(s) => Placed(TreeOf(s), nested'[s])]_vars

(* the lists that hold the entries of `items` in another order *)
Reorderings(items) ==
    { [i \in 1..Len(items) |-> items[f[i]]] : f \in Permutations(1..Len(items)) }

(* C20 as stated: buildNestedTree returns the same forest, with the same    *)
(* sibling order at every level, for every permutation of its input list.   *)
C20_SameForestForEveryOrder ==
    [][\A s \in Pages :
         BuildStep(s) => \A q \in Reorderings(TreeOf(s)) : buildNestedTree(q) = nested'[s]]_vars

-----------------------------------------------------------------------------
(* Folders and notes created from the sidebar *)

(* the branch holds a file at p *)
HoldsFile(p) == HostFileAt(commits, p, Len(commits)) # None

FolderEntry == [path |-> FolderPath, type |-> "tree"]
FolderNode == [path |-> FolderPath, name |-> "d", type |-> "tree", children |-> <<>>]

C23_CreateOnExistingFails ==
    [][\A s \in Sessions :
         (WriteStep(s) /\ sess[s].call.op = "createNote" /\ HoldsFile(sess[s].call.path))
         => (commits' = commits /\ ~sess'[s].ret.success)]_vars

(* C22: single repository per user.  In every state after an ensureUserRepo *)
(* call returned success, the name it returned (the repository getNoteTree  *)
(* reads) is the name the profile stores (the repository saveNote,          *)
(* loadNote, createNote, getNoteHistory and getNoteVersion use), also when   *)
(* the profile already stored a name and when the profile update failed.    *)
C22_SingleRepositoryPerUser ==
    \A i \in 1..Len(ensureLog) :
        ensureLog[i].result.success =>
            profileRepoName = Some(ensureLog[i].result.repoName)

(* the host answered every request of the call itself *)
HostAnswered(e) ==
    /\ e.reqs # <<>>
    /\ \A k \in 1..Len(e.answers) : e.answers[k] \in {200, 404, 201, 422}

(* C24: when two ensureUserRepo calls are interleaved while the repository  *)
(* does not exist, at most one repository is created and both calls return  *)
(* success with the same repoName.                                          *)
C24_RaceCreatesOnceBothSucceed ==
    /\ repoCount <= 1
    /\ \A i \in 1..Len(ensureLog) :
         (ensureLog[i].before = 0 /\ HostAnswered(ensureLog[i])) =>
            /\ ensureLog[i].result.success
            /\ ensureLog[i].result.repoName = DRAFTER_REPO_NAME

NoteOps == WriteOps \cup {"loadNote", "getNoteHistory", "getNoteVersion"}

(* the call of session s was made in one of the cases the checks reject *)
Rejected(s) ==
    \/ sess[s].call.path = EmptyPath
    \/ ~sess[s].env.user
    \/ ~sess[s].env.profile
    \/ profileRepoName = None
    \/ ~sess[s].env.token
    \/ ~sess[s].env.decrypt

(* C30: saveNote, createNote, createFolder, loadNote, getNoteHistory and    *)
(* getNoteVersion send no request to the host and return success = false    *)
(* with an error message when the path is empty, the user is not            *)
(* authenticated, the profile cannot be read, the profile has no repository *)
(* name, it has no encrypted token, or the token fails to decrypt.          *)
C30_ChecksBeforeAnyRequest ==
    \A s \in Sessions :
        (sess[s].call.op \in NoteOps /\ Rejected(s)) =>
            /\ sess[s].pc = "done"
            /\ sess[s].reqs = <<>>
            /\ ~sess[s].ret.success
            /\ sess[s].ret.error[2] # ""

C30_Witness ==
    \E s \in Sessions :
        /\ Done(s, "getNoteVersion")
        /\ sess[s].call.path = NotePath /\ HoldsFile(NotePath)
        /\ profileRepoName # None
        /\ sess[s].env = [OkEnv EXCEPT !.decrypt = FALSE]
        /\ sess[s].ret = Failure(<<"", "Failed to decrypt GitHub token.">>)

-----------------------------------------------------------------------------
(* The note page across a change of path *)

(* this step hands the result of call c to its continuation *)
Responds(c) == c \in inFlight /\ c.served /\ inFlight' = inFlight \ {c}

(* the editor of page p is mounted and editable *)
Editable(p) == p.editor.mounted /\ p.editor.sha = 0

(* C25: the response to a getNoteVersion issued while path p was shown      *)
(* changes none of displayedContent, selectedCommitSha and isVersionLoading *)
(* once the page shows another path; and while selectedCommitSha is null    *)
(* and the editor is editable, displayedContent is never the content of a   *)
(* historical version of another path.                                      *)
C25_StaleVersionResponseIgnored ==
    [][/\ \A c \in inFlight :
            (c.kind = "getNoteVersion" /\ c.path # notePage.path /\ Responds(c)) =>
                /\ notePage'.displayedContent = notePage.displayedContent
                /\ notePage'.selectedCommitSha = notePage.selectedCommitSha
                /\ notePage'.isVersionLoading = notePage.isVersionLoading
       /\ (notePage'.selectedCommitSha = 0 /\ Editable(notePage')) =>
             ~(notePage'.displayedFrom.kind = "version"
               /\ notePage'.displayedFrom.path # notePage'.path)]_vars

(* what fetchNoteContent stores for the result of a loadNote that succeeded *)
Loaded(c) == IF c.ret.content = None THEN EmptyText ELSE The(c.ret.content)

(* C26: once the path has changed from p to q, the response of the loadNote *)
(* for p changes none of latestContent, displayedContent and                *)
(* initialLoadComplete; and when the load for q completes, latestContent is *)
(* the content loaded for q (empty when q has none), whichever of the two   *)
(* responses arrives first.                                                 *)
C26_StaleLoadResponseIgnored ==
    [][\A c \in inFlight :
         (c.kind = "loadNote" /\ Responds(c)) =>
            /\ (c.path # notePage.path \/ ~c.live) =>
                  /\ notePage'.latestContent = notePage.latestContent
                  /\ notePage'.displayedContent = notePage.displayedContent
                  /\ notePage'.initialLoadComplete = notePage.initialLoadComplete
            /\ (c.path = notePage.path /\ c.live) =>
                  /\ notePage'.initialLoadComplete
                  /\ c.ret.success => notePage'.latestContent = Loaded(c)]_vars

(* the load for x.md has completed (x.md has no content) while the response *)
(* of the load for n.md, which has content, is still on its way             *)
C26_Witness ==
    /\ notePage.path = SecondPath /\ notePage.initialLoadComplete
    /\ notePage.displayedFrom = [kind |-> "load", path |-> SecondPath, sha |-> 0]
    /\ notePage.latestContent = EmptyText
    /\ \E c \in inFlight :
          /\ c.kind = "loadNote" /\ c.path = NotePath /\ c.served /\ ~c.live
          /\ c.ret.success /\ c.ret.content = Some(AstralText)

-----------------------------------------------------------------------------
(* The note page on one note *)

(* every save the server has committed has returned to the page *)
SavesCompleted ==
    \A c \in inFlight : ~(c.kind = "saveNote" /\ c.served /\ c.ret.success)

(* C27: whenever history is a list (not null), it was fetched after the     *)
(* last successful save from this page and so contains that save's commit,  *)
(* also when the response of getNoteHistory arrives after a save that       *)
(* completed while the request was in flight.                               *)
C27_HistoryHoldsLastSave ==
    (notePage.history # None /\ SavesCompleted) =>
        LET saved == CommitsForPath(commits, notePage.path, Len(commits))
        IN saved # <<>> => saved[1] \in Listed(notePage)

(* the saveNote calls this step issues *)
SavesIssued == {c \in inFlight' \ inFlight : c.kind = "saveNote" /\ ~c.served}

C29_NoSaveBeforeInitialLoad ==
    [][\A c \in SavesIssued :
         /\ c.path = notePage.path
         /\ notePage.initialLoadComplete
         /\ \A d \in inFlight : ~(d.kind = "loadNote" /\ d.live)]_vars

(* a save of x.md is on its way: the page came from n.md, and the load of   *)
(* x.md has completed                                                       *)
C29_Witness ==
    /\ notePage.path = SecondPath /\ notePage.initialLoadComplete
    /\ \E c \in inFlight : c.kind = "saveNote" /\ c.path = SecondPath /\ ~c.served

====
